---------------------------- MODULE Spec2Model ----------------------------
(***************************************************************************)
(* A model of the LED frame-delivery and pixel-buffer subsystem of Alis_2: *)
(* the framebuffer of AnimationControllerThread (app/animation_controller  *)
(* .py), the device framing of app/led_controller.py and the preview       *)
(* broadcast of WebServerThread (app/web_server.py).                       *)
(*                                                                         *)
(* The module holds several specifications over one set of variables; each *)
(* specification moves its own group of variables and leaves the others at *)
(* their initial value.                                                    *)
(*   SpecFB      the framebuffer under threads, one step per pixel access  *)
(*   SpecApi     the framebuffer's calls one after the other, each followed *)
(*               by framebuffer_rgb_bytes()                                *)
(*   SpecEnc     the pure encoders (send_frame's framing, _encode_rle_rows, *)
(*               _delta_indices) applied to inputs drawn by Init           *)
(*   SpecMirror  the broadcast loop of WebServerThread, its viewers and    *)
(*               their connection handlers; SpecMirrorFair adds the        *)
(*               fairness of the event loop                                *)
(*   SpecAnim    the loop of AnimationControllerThread.run, the passing of *)
(*               time, the writers of the framebuffer and the serial       *)
(*               transport; SpecAnimFair adds that the thread runs and     *)
(*               time passes                                               *)
(*   SpecWs      the message loop of one _ws_handler, one inbound message  *)
(*               per step, well-formed or not                              *)
(*   SpecLed     LEDThread.run, a thread calling set_pattern and the       *)
(*               serial transport; SpecLedFair adds that both threads run  *)
(*   SpecIo      the threads that send on the handle of LEDThread, one     *)
(*               step per acquisition of _io_lock and per part of a write  *)
(*   SpecBright  the sends of the two workers while led.brightness changes *)
(*   SpecCancel  the three workers side by side, and stop_evt              *)
(*   SpecMenu    SELECT events on a select item of MenuController          *)
(*   SpecDisplay DisplayThread.run, the idle time and the display settings *)
(*   SpecPush    the push of AnimationControllerThread.run next to the     *)
(*               callers of the framebuffer, one step per lock operation   *)
(*   SpecOpen    the threads that call LEDThread._ensure_serial, one step  *)
(*               per test, open and assignment of the handle               *)
(*   SpecPointer the pointer of the button menu of app_pi                  *)
(*               (app_pi/menu_controller.py)                               *)
(***************************************************************************)
EXTENDS Integers, Sequences, FiniteSets, TLC

VARIABLES
    frame,      \* _frame: [y][x] -> (r, g, b)
    dirty,      \* _dirty_evt
    frameLock,  \* _frame_lock: the thread holding it, or NoThread
    pc,         \* per thread: its position in the call it runs
    op,         \* per thread: the call and its arguments
    idx,        \* per thread: the loop counter of a fill or of a read
    out,        \* per thread: the bytearray a reader fills
    seen,       \* per thread (history): the grids the framebuffer held at
                \* instants between whole writes while the thread's read ran
    snap,       \* SpecApi: the bytes framebuffer_rgb_bytes() returned last
    last,       \* SpecApi: the last call made, its arguments, whether it raised
    calls,      \* SpecApi: the number of calls made
    encIn,      \* SpecEnc: the function to apply and its arguments
    encOut,     \* SpecEnc: what the function returned or wrote
    stop,       \* stop_evt
    clients,    \* WebServerThread.clients: the subscribed viewers
    webClients, \* AnimationControllerThread._web_clients: the legacy registry
    conn,       \* per viewer: whether its _ws_handler is running
    preview,    \* per viewer: the pixels of its preview canvas (its page)
    lastBuf,    \* WebServerThread._last_buf
    lastDims,   \* WebServerThread._last_w, _last_h
    bpc,        \* _broadcast_loop: "top", "sleep", "send" or "exit"
    msg,        \* _broadcast_loop: the message of the tick
    tickSubs,   \* _broadcast_loop: list(self.clients) of the tick
    pending,    \* _broadcast_loop: the part of that list not yet sent to
    dead,       \* _broadcast_loop: the viewers whose send raised in the tick
    delivered,  \* (history) the viewers that applied the tick's message
    failed,     \* (history) the connections a send to which has raised
    mode,       \* AnimationControllerThread.mode
    sendToLed,  \* AnimationControllerThread.send_to_led
    link,       \* the serial transport: "up" (opens, takes writes) or "down"
    ser,        \* AnimationControllerThread.ser: "none" or "open"
    apc,        \* run: its position in the loop
    due,        \* run: the time left until next_tick (0: now >= next_tick)
    age,        \* run: the time passed since "now = time.time()"
    tickDue,    \* run: now >= next_tick, for the sampled now
    waited,     \* run: the time spent in _dirty_evt.wait
    sent,       \* the last frame written to the device
    lost,       \* (history) since the last push was marked, the clear after
                \* the wait has cleared a dirty signal
    unsent,     \* (history) a call has set the dirty marker and no frame
                \* read from the framebuffer since has been written
    wsIn,       \* SpecWs: the message _ws_handler got last
    wsPre,      \* SpecWs: the framebuffer before that message
    wsServing,  \* SpecWs: _ws_handler is still in its message loop
    pattern,    \* LEDThread._pattern
    lser,       \* LEDThread.ser: "none" or "open"
    port,       \* the LED transport: "up" (opens, takes writes) or "down"
    lpc,        \* LEDThread.run: its position
    curPattern, \* run: pattern
    lastPattern,\* run: last_pattern
    colIdx,     \* run: the index of the for loop over the three colours
    held,       \* run: the sleeps of the hold loop so far
    wcol,       \* run: the colour of the _set_all in progress
    wafter,     \* run: where it goes on after that _set_all
    wser,       \* run: ser of the _set_all in progress
    cpc,        \* the thread calling set_pattern: its position
    cser,       \* that thread: ser of its _set_all
    wire,       \* the last frame written to the LED transport
    opened,     \* (history) the last _ensure_serial called serial.Serial
    offWatch,   \* (history) frames written since the pattern became "off"
    wLast,      \* (history) the colour of the last frame run wrote
    wWrites,    \* (history) the frames run wrote: 0, 1, 2 for more
    wTry,       \* (history) run's last send: its colour, the transport then
    entered,    \* (history) run entered an iteration of its main loop
    stopAtStart,\* (history) stop was set when run began
    portDropped,\* (history) the transport was down at some time
    steady,     \* (history) the pattern has been "rgb_cycle" ever since the
                \* last frame run wrote
    ioLock,     \* SpecIo: LEDThread._io_lock: the thread holding it, or NoThread
    iopc,       \* SpecIo: per thread, its position in a send
    ioKind,     \* SpecIo: per thread, the send it makes
    ioOpen,     \* SpecIo: the thread whose frame is partly on the wire
    ioTorn,     \* (history) bytes of two frames were interleaved on the wire
    ledSetting, \* SpecBright: what get_settings() holds for led.brightness
    bSent,      \* SpecBright: the last frame written to a device
    bBy,        \* SpecBright: the worker that wrote it
    bAt,        \* (history) ledSetting at the time of that send
    mLoaded,    \* SpecMenu: the MenuController is constructed
    mOpts,      \* SpecMenu: the options of the focused select item
    mVal,       \* SpecMenu: the bound setting: <<v>>, or <<>> when absent
    mPrev,      \* (history) the bound setting before the last SELECT
    mStart,     \* (history) the bound setting at construction
    mCount,     \* (history) the SELECT events so far
    mSaves,     \* (history) the calls of save_cb so far
    dSettings,  \* SpecDisplay: what get_settings() holds under "display"
    dIdleTicks, \* SpecDisplay: the time since the last input, in steps of 10 s
    dpc,        \* DisplayThread.run: its position
    dLocal,     \* DisplayThread.run: settings, as read by the iteration
    dBacklight, \* the value the backlight was given last
    dBranch,    \* (history) the branch the last iteration took
    dIter,      \* (history) the values _apply_brightness got in the iteration
    ppc,        \* SpecPush: run: its position in a push
    pser,       \* SpecPush: AnimationControllerThread.ser: "none" or "open"
    opc,        \* SpecOpen: per thread, its position in _ensure_serial
    oSelf,      \* SpecOpen: LEDThread.ser: a handle (1, 2, ...) or NoHandle
    oNew,       \* SpecOpen: per thread, what its serial.Serial call gave
    oRet,       \* SpecOpen: per thread, what its _ensure_serial returned
    oCount,     \* (history) the handles opened so far
    pointer_tracker,\* SpecPointer: MenuController.pointer_tracker (app_pi): rows of 0/1 cells
    mpc,        \* the menu of app_pi: "new", "built" (constructed) or "started"
    raised      \* the last move_pointer call ended by an IndexError

fbVars == <<frameLock, pc, op, idx, out, seen>>
apiVars == <<snap, last, calls>>
encVars == <<encIn, encOut>>
mirVars == <<clients, webClients, conn, preview, lastBuf, lastDims, bpc, msg,
             tickSubs, pending, dead, delivered, failed>>
animVars == <<mode, sendToLed, link, ser, apc, due, age, tickDue, waited,
              sent, lost, unsent>>
wsVars == <<wsIn, wsPre, wsServing>>
ledVars == <<pattern, lser, port, lpc, curPattern, lastPattern, colIdx, held,
             wcol, wafter, wser, cpc, cser, wire, opened, offWatch, wLast,
             wWrites, wTry, entered, stopAtStart, portDropped, steady>>
ioVars == <<ioLock, iopc, ioKind, ioOpen, ioTorn>>
brVars == <<ledSetting, bSent, bBy, bAt>>
menuVars == <<mLoaded, mOpts, mVal, mPrev, mStart, mCount, mSaves>>
dispVars == <<dSettings, dIdleTicks, dpc, dLocal, dBacklight, dBranch, dIter>>
pushVars == <<ppc, pser>>
openVars == <<opc, oSelf, oNew, oRet, oCount>>
ptrVars == <<pointer_tracker, mpc, raised>>
vars == <<frame, dirty, stop, fbVars, apiVars, encVars, mirVars, animVars,
          wsVars, ledVars, ioVars, brVars, menuVars, dispVars, pushVars,
          openVars, ptrVars>>
\* what the actions of one specification leave alone
notFb == <<stop, apiVars, encVars, mirVars, animVars, wsVars, ledVars, ioVars,
           brVars, menuVars, dispVars, pushVars, openVars, ptrVars>>
notApi == <<stop, fbVars, encVars, mirVars, animVars, wsVars, ledVars, ioVars,
            brVars, menuVars, dispVars, pushVars, openVars, ptrVars>>
notEnc == <<frame, dirty, stop, fbVars, apiVars, mirVars, animVars, wsVars,
            ledVars, ioVars, brVars, menuVars, dispVars, pushVars, openVars,
            ptrVars>>
notMir == <<fbVars, apiVars, encVars, animVars, wsVars, ledVars, ioVars,
            brVars, menuVars, dispVars, pushVars, openVars, ptrVars>>
notAnim == <<fbVars, apiVars, encVars, mirVars, wsVars, ledVars, ioVars,
             brVars, menuVars, dispVars, pushVars, openVars, ptrVars>>
notWs == <<stop, fbVars, apiVars, encVars, mirVars, animVars, ledVars, ioVars,
           brVars, menuVars, dispVars, pushVars, openVars, ptrVars>>
notLed == <<frame, dirty, fbVars, apiVars, encVars, mirVars, animVars, wsVars,
            ioVars, brVars, menuVars, dispVars, pushVars, openVars, ptrVars>>
notIo == <<frame, dirty, stop, fbVars, apiVars, encVars, mirVars, animVars,
           wsVars, ledVars, brVars, menuVars, dispVars, pushVars, openVars,
           ptrVars>>
notBr == <<frame, dirty, stop, fbVars, apiVars, encVars, mirVars, animVars,
           wsVars, ledVars, ioVars, menuVars, dispVars, pushVars, openVars,
           ptrVars>>
notMenu == <<frame, dirty, stop, fbVars, apiVars, encVars, mirVars, animVars,
             wsVars, ledVars, ioVars, brVars, dispVars, pushVars, openVars,
             ptrVars>>
notDisp == <<frame, dirty, fbVars, apiVars, encVars, mirVars, animVars,
             wsVars, ledVars, ioVars, brVars, menuVars, pushVars, openVars,
             ptrVars>>
notPush == <<frame, dirty, stop, fbVars, apiVars, encVars, mirVars, animVars,
             wsVars, ledVars, ioVars, brVars, menuVars, dispVars, openVars,
             ptrVars>>
notOpen == <<frame, dirty, stop, fbVars, apiVars, encVars, mirVars, animVars,
             wsVars, ledVars, ioVars, brVars, menuVars, dispVars, pushVars,
             ptrVars>>
notPtr == <<frame, dirty, stop, fbVars, apiVars, encVars, mirVars, animVars,
            wsVars, ledVars, ioVars, brVars, menuVars, dispVars, pushVars,
            openVars>>

---------------------------------------------------------------------------
(* Dimensions and colours *)

\* width of the grid (constructor argument of AnimationControllerThread)
Width == 2
\* height of the grid
Height == 2
\* number of threads that call into the framebuffer
NumThreads == 3
\* number of calls a run of SpecApi makes
MaxCalls == 3

NumPixels == Width * Height
Xs == 0 .. (Width - 1)
Ys == 0 .. (Height - 1)
Black == <<0, 0, 0>>
\* colors of _animate
AnimColors == { <<255, 0, 0>>, <<0, 255, 0>>, <<0, 0, 255>> }

\* int(v) & 0xFF on Python's unbounded integers
And0xFF(v) == v % 256

\* the framebuffer after __init__
InitFrame == [y \in Ys |-> [x \in Xs |-> Black]]

\* a guard that forgets the lower bounds
InBoundsNoLower(x, y) == x < Width /\ y < Height

\* the guard of update_pixel
InBounds(x, y) == 0 <= x /\ x < Width /\ 0 <= y /\ y < Height

\* a Python list index: a negative index counts from the end
PyIndex(i, n) == IF i < 0 THEN i + n ELSE i

\* self._frame[y][x] = (int(color[0]) & 0xFF, ...)
StorePixel(f, x, y, c) ==
    [f EXCEPT ![PyIndex(y, Height)][PyIndex(x, Width)] =
                  <<And0xFF(c[1]), And0xFF(c[2]), And0xFF(c[3])>>]

\* row[x] = col: the plain store of clear_panel and _animate
FillPixel(f, x, y, c) == [f EXCEPT ![y][x] = c]

\* the pixel the i-th iteration of "for y ... for x ..." visits
PixelX(i) == i % Width
PixelY(i) == i \div Width

\* bytearray(n): n zero bytes, as a sequence
Zeros(n) == SubSeq([k \in 1 .. n |-> 0], 1, n)

\* out[i] = r & 0xFF; out[i+1] = g & 0xFF; out[i+2] = b & 0xFF (i = 3 * p)
PutRgb(o, p, px) ==
    [o EXCEPT ![3 * p + 1] = And0xFF(px[1]),
              ![3 * p + 2] = And0xFF(px[2]),
              ![3 * p + 3] = And0xFF(px[3])]

\* data[i] = g & 0xFF; data[i+1] = r & 0xFF; data[i+2] = b & 0xFF
PutGrb(o, p, px) ==
    [o EXCEPT ![3 * p + 1] = And0xFF(px[2]),
              ![3 * p + 2] = And0xFF(px[1]),
              ![3 * p + 3] = And0xFF(px[3])]

RECURSIVE RgbFrom(_, _, _)
RgbFrom(f, p, o) ==
    IF p = NumPixels THEN o
    ELSE RgbFrom(f, p + 1, PutRgb(o, p, f[PixelY(p)][PixelX(p)]))

\* framebuffer_rgb_bytes()[0] as one critical section
FramebufferRgbBytes(f) == RgbFrom(f, 0, Zeros(3 * NumPixels))

RECURSIVE GrbFrom(_, _, _)
GrbFrom(f, p, o) ==
    IF p = NumPixels THEN o
    ELSE GrbFrom(f, p + 1, PutGrb(o, p, f[PixelY(p)][PixelX(p)]))

\* _frame_bytes_grb() as one critical section
FrameBytesGrb(f) == GrbFrom(f, 0, Zeros(3 * NumPixels))

---------------------------------------------------------------------------
(* SpecFB: the framebuffer under threads.  Every thread makes one call;    *)
(* taking the lock, each pixel store, each pixel load and the release are  *)
(* steps of their own.                                                     *)

Threads == 1 .. NumThreads
NoThread == 0
\* colours a caller of update_pixel passes in SpecFB
CallColors == { <<9, 9, 9>> }
NoOp == [name |-> "none"]

\* no clear_panel or _animate fill is part-way through the grid
Quiescent(pcs, idxs) ==
    \A t \in Threads : pcs[t] = "fill" => idxs[t] \in {0, NumPixels}

\* history: a running read records each grid that stands between writes
Observe(t) ==
    seen' = [u \in Threads |->
               IF (u = t /\ pc'[u] = "read") \/ (u # t /\ pc[u] = "read")
               THEN (IF u = t /\ pc[u] # "read" THEN {} ELSE seen[u])
                    \cup (IF Quiescent(pc', idx') THEN {frame'} ELSE {})
               ELSE seen[u]]

\* "with self._frame_lock:" taken by a writer
WriteAcquire(t) ==
    /\ frameLock = NoThread
    /\ frameLock' = t

\* a reader that does not take the lock
ReadAcquireNoLock(t) ==
    /\ frameLock' = frameLock

\* "with self._frame_lock:" taken by framebuffer_rgb_bytes / _frame_bytes_grb
ReadAcquire(t) ==
    /\ frameLock = NoThread
    /\ frameLock' = t

\* a "with" block whose end keeps the lock
ReleaseKeeps(t) == frameLock' = frameLock

\* leaving the "with" block
Release(t) == frameLock' = (IF frameLock = t THEN NoThread ELSE frameLock)

\* update_pixel(x, y, color): the bounds test, then the lock
FbUpdatePixelCall(t, x, y, c) ==
    /\ pc[t] = "idle"
    /\ op' = [op EXCEPT ![t] = [name |-> "update_pixel", x |-> x, y |-> y, color |-> c]]
    /\ IF InBounds(x, y)
       THEN WriteAcquire(t) /\ pc' = [pc EXCEPT ![t] = "store"]
       ELSE frameLock' = frameLock /\ pc' = [pc EXCEPT ![t] = "set_dirty"]
    /\ UNCHANGED <<frame, dirty, idx, out>>
    /\ Observe(t)
    /\ UNCHANGED notFb

\* update_pixel: the store and the end of the with block
FbUpdatePixelStore(t) ==
    /\ pc[t] = "store"
    /\ frame' = StorePixel(frame, op[t].x, op[t].y, op[t].color)
    /\ Release(t)
    /\ pc' = [pc EXCEPT ![t] = "set_dirty"]
    /\ UNCHANGED <<dirty, op, idx, out>>
    /\ Observe(t)
    /\ UNCHANGED notFb

\* self._dirty_evt.set() at the end of update_pixel and clear_panel
FbSetDirty(t) ==
    /\ pc[t] = "set_dirty"
    /\ dirty' = TRUE
    /\ pc' = [pc EXCEPT ![t] = "done"]
    /\ op' = [op EXCEPT ![t] = NoOp]
    /\ UNCHANGED <<frame, frameLock, idx, out>>
    /\ Observe(t)
    /\ UNCHANGED notFb

\* clear_panel() (col is black) or _animate(t) (col is colors[int(t) % 3])
FbFillCall(t, name, col) ==
    /\ pc[t] = "idle"
    /\ WriteAcquire(t)
    /\ op' = [op EXCEPT ![t] = [name |-> name, color |-> col]]
    /\ pc' = [pc EXCEPT ![t] = "fill"]
    /\ idx' = [idx EXCEPT ![t] = 0]
    /\ UNCHANGED <<frame, dirty, out>>
    /\ Observe(t)
    /\ UNCHANGED notFb

\* one row[x] = col of the nested loops
FbFillStep(t) ==
    /\ pc[t] = "fill"
    /\ idx[t] < NumPixels
    /\ frame' = FillPixel(frame, PixelX(idx[t]), PixelY(idx[t]), op[t].color)
    /\ idx' = [idx EXCEPT ![t] = idx[t] + 1]
    /\ UNCHANGED <<dirty, frameLock, pc, op, out>>
    /\ Observe(t)
    /\ UNCHANGED notFb

\* the loops are over: leave the with block
FbFillEnd(t) ==
    /\ pc[t] = "fill"
    /\ idx[t] = NumPixels
    /\ Release(t)
    /\ idx' = [idx EXCEPT ![t] = 0]
    /\ pc' = [pc EXCEPT ![t] = IF op[t].name = "clear_panel" THEN "set_dirty" ELSE "done"]
    /\ op' = [op EXCEPT ![t] = IF op[t].name = "clear_panel" THEN op[t] ELSE NoOp]
    /\ UNCHANGED <<frame, dirty, out>>
    /\ Observe(t)
    /\ UNCHANGED notFb

\* framebuffer_rgb_bytes() or _frame_bytes_grb(): the lock and the bytearray
FbReadCall(t, name) ==
    /\ pc[t] = "idle"
    /\ ReadAcquire(t)
    /\ op' = [op EXCEPT ![t] = [name |-> name]]
    /\ pc' = [pc EXCEPT ![t] = "read"]
    /\ idx' = [idx EXCEPT ![t] = 0]
    /\ out' = [out EXCEPT ![t] = Zeros(3 * NumPixels)]
    /\ UNCHANGED <<frame, dirty>>
    /\ Observe(t)
    /\ UNCHANGED notFb

\* one r, g, b = self._frame[y][x] and its three byte stores
FbReadStep(t) ==
    /\ pc[t] = "read"
    /\ idx[t] < NumPixels
    /\ LET px == frame[PixelY(idx[t])][PixelX(idx[t])]
       IN out' = [out EXCEPT ![t] =
                    IF op[t].name = "framebuffer_rgb_bytes"
                    THEN PutRgb(out[t], idx[t], px)
                    ELSE PutGrb(out[t], idx[t], px)]
    /\ idx' = [idx EXCEPT ![t] = idx[t] + 1]
    /\ UNCHANGED <<frame, dirty, frameLock, pc, op>>
    /\ Observe(t)
    /\ UNCHANGED notFb

\* return bytes(out): the with block ends
FbReadEnd(t) ==
    /\ pc[t] = "read"
    /\ idx[t] = NumPixels
    /\ Release(t)
    /\ pc' = [pc EXCEPT ![t] = "returned"]
    /\ UNCHANGED <<frame, dirty, op, idx, out>>
    /\ Observe(t)
    /\ UNCHANGED notFb

\* the caller drops the returned bytes
FbReturn(t) ==
    /\ pc[t] = "returned"
    /\ pc' = [pc EXCEPT ![t] = "done"]
    /\ out' = [out EXCEPT ![t] = <<>>]
    /\ idx' = [idx EXCEPT ![t] = 0]
    /\ op' = [op EXCEPT ![t] = NoOp]
    /\ UNCHANGED <<frame, dirty, frameLock>>
    /\ Observe(t)
    /\ UNCHANGED notFb

NoCall == [name |-> "none"]

InitFB ==
    /\ frameLock = NoThread
    /\ pc = [t \in Threads |-> "idle"]
    /\ op = [t \in Threads |-> NoOp]
    /\ idx = [t \in Threads |-> 0]
    /\ out = [t \in Threads |-> <<>>]
    /\ seen = [t \in Threads |-> {}]

NextFB ==
    \E t \in Threads :
        \/ \E x \in -1 .. Width, y \in -1 .. Height, c \in CallColors :
               FbUpdatePixelCall(t, x, y, c)
        \/ FbUpdatePixelStore(t)
        \/ FbSetDirty(t)
        \/ FbFillCall(t, "clear_panel", Black)
        \/ \E col \in AnimColors : FbFillCall(t, "_animate", col)
        \/ FbFillStep(t)
        \/ FbFillEnd(t)
        \/ FbReadCall(t, "framebuffer_rgb_bytes")
        \/ FbReadCall(t, "_frame_bytes_grb")
        \/ FbReadStep(t)
        \/ FbReadEnd(t)
        \/ FbReturn(t)

---------------------------------------------------------------------------
(* SpecApi: one caller, whole calls.  Each action is one call of the public *)
(* surface followed by framebuffer_rgb_bytes(); snap is what that returned. *)

\* a colour argument: ok is FALSE when int() of a channel raises
ApiColors ==
    { [ok |-> TRUE, rgb |-> <<1, 2, 3>>],
      [ok |-> TRUE, rgb |-> <<256, -1, 300>>],
      [ok |-> FALSE, rgb |-> <<0, 0, 0>>] }

\* update_pixel as a whole: the framebuffer it leaves
UpdatePixel(f, x, y, c) ==
    IF InBounds(x, y) /\ c.ok THEN StorePixel(f, x, y, c.rgb) ELSE f

\* update_pixel raises when int(color[k]) does, which it evaluates only
\* inside the bounds test
UpdatePixelRaises(x, y, c) == InBounds(x, y) /\ ~c.ok

\* a clear that stops after the first row
ClearPanelFirstRow(f) == [f EXCEPT ![0] = [x \in Xs |-> Black]]

\* clear_panel as a whole
ClearPanel(f) == [y \in Ys |-> [x \in Xs |-> Black]]

\* update_pixel(x, y, c), then framebuffer_rgb_bytes()
ApiUpdatePixel(x, y, c) ==
    /\ calls < MaxCalls
    /\ calls' = calls + 1
    /\ frame' = UpdatePixel(frame, x, y, c)
    /\ dirty' = (IF UpdatePixelRaises(x, y, c) THEN dirty ELSE TRUE)
    /\ last' = [name |-> "update_pixel", x |-> x, y |-> y, color |-> c,
                raised |-> UpdatePixelRaises(x, y, c)]
    /\ snap' = FramebufferRgbBytes(frame')
    /\ UNCHANGED notApi

\* clear_panel(), then framebuffer_rgb_bytes()
ApiClearPanel ==
    /\ calls < MaxCalls
    /\ calls' = calls + 1
    /\ frame' = ClearPanel(frame)
    /\ dirty' = TRUE
    /\ last' = [name |-> "clear_panel", raised |-> FALSE,
                prev |-> last.name, before |-> snap]
    /\ snap' = FramebufferRgbBytes(frame')
    /\ UNCHANGED notApi

InitApi ==
    /\ snap = FramebufferRgbBytes(InitFrame)
    /\ last = NoCall
    /\ calls = 0

NextApi ==
    \/ \E x \in -1 .. Width, y \in -1 .. Height, c \in ApiColors :
           ApiUpdatePixel(x, y, c)
    \/ ApiClearPanel

---------------------------------------------------------------------------
(* SpecEnc: the encoders.  Init draws one call (a function and its         *)
(* arguments); the action of that function applies it.                     *)

\* longest row, in pixels, of the exhaustively enumerated buffers
MaxW == 3
\* the cap of a run in _encode_rle_rows
RunCap == 255

Min(a, b) == IF a < b THEN a ELSE b

\* Python's s[a:b] on bytes, 0 <= a <= b
Slice(s, a, b) == SubSeq(s, a + 1, Min(b, Len(s)))

\* colours of the enumerated buffers: two of them differ in one byte only
EncColors == { <<0, 0, 0>>, <<0, 0, 1>>, <<1, 0, 0>> }

\* a sequence of pixels as flat bytes
RECURSIVE Flat(_)
Flat(px) == IF px = <<>> THEN <<>> ELSE Head(px) \o Flat(Tail(px))

\* n pixels of colour c, as flat bytes
Solid(n, c) == [k \in 1 .. 3 * n |-> c[((k - 1) % 3) + 1]]

\* every buffer of n pixels over EncColors
BuffersOf(n) == { Flat(px) : px \in [1 .. n -> EncColors] }

\* a header with the pixel count written high byte first
FrameHeaderBigEndian(num, brightness) ==
    <<171, 205, 241, 0, And0xFF(num \div 256), And0xFF(num), And0xFF(brightness)>>

\* hdr = bytes((0xAB, 0xCD, 0xF1, 0x00, num & 0xFF, (num >> 8) & 0xFF,
\*              brightness & 0xFF))
FrameHeader(num, brightness) ==
    <<171, 205, 241, 0, And0xFF(num), And0xFF(num \div 256), And0xFF(brightness)>>

\* build_solid_grb: trip = bytes((g & 0xFF, r & 0xFF, b & 0xFF)), and
\* a payload that keeps the order r, g, b
BuildSolidRgb(w, h, su, rgb) ==
    Solid(w * h * su, <<And0xFF(rgb[1]), And0xFF(rgb[2]), And0xFF(rgb[3])>>)

\* trip * (w * h * su)
BuildSolidGrb(w, h, su, rgb) ==
    Solid(w * h * su, <<And0xFF(rgb[2]), And0xFF(rgb[1]), And0xFF(rgb[3])>>)

\* send_frame: the calls of ser.write it makes, each with its bytes.  The
\* flush, the timeout and the acknowledgement read that follow write nothing.
SendFrame(payload_grb, brightness) ==
    LET num == Len(payload_grb) \div 3
    IN << FrameHeader(num, brightness) \o payload_grb >>

\* an iteration that lets a run grow without limit
RleStepNoCap(buf, st, i) ==
    LET nxt == Slice(buf, i, i + 3)
    IN IF nxt = st.cur
       THEN [cur |-> st.cur, run |-> st.run + 1, row |-> st.row]
       ELSE [cur |-> nxt, run |-> 1, row |-> Append(st.row, <<st.run, st.cur>>)]

\* one iteration of the while loop of _encode_rle_rows, at byte i, on the
\* loop's variables st = [cur, run, row]
RleStep(buf, st, i) ==
    LET nxt == Slice(buf, i, i + 3)
    IN IF nxt = st.cur /\ st.run < RunCap
       THEN [cur |-> st.cur, run |-> st.run + 1, row |-> st.row]
       ELSE [cur |-> nxt, run |-> 1, row |-> Append(st.row, <<st.run, st.cur>>)]

\* the iterations for the pixels lo .. hi of the row that starts at byte
\* start, in order (split in halves to keep the evaluation shallow)
RECURSIVE RleLoop(_, _, _, _, _)
RleLoop(buf, start, lo, hi, st) ==
    IF lo > hi THEN st
    ELSE IF lo = hi THEN RleStep(buf, st, start + 3 * lo)
    ELSE LET mid == (lo + hi) \div 2
             half == RleLoop(buf, start, lo, mid, st)
         IN \* the test (always true) has the first half evaluated first
            IF half.run >= 1
            THEN RleLoop(buf, start, mid + 1, hi, half)
            ELSE half

\* the loop's variables when the while loop of row y ends
RleRowEnd(buf, w, y) ==
    LET start == y * w * 3
    IN RleLoop(buf, start, 1, w - 1,
               [cur |-> Slice(buf, start, start + 3), run |-> 1, row |-> <<>>])

\* _encode_rle_rows without the append that follows the while loop
EncodeRleRowsNoLast(buf, w, h) ==
    [r \in 1 .. h |-> RleRowEnd(buf, w, r - 1).row]

\* _encode_rle_rows: per row y, cur = buf[start:start+3], run = 1, the while
\* loop from i = start + 3 to end, then row.append((run, list(cur)))
EncodeRleRows(buf, w, h) ==
    [r \in 1 .. h |->
        LET st == RleRowEnd(buf, w, r - 1)
        IN Append(st.row, <<st.run, st.cur>>)]

\* the for loop of _delta_indices from pixel i on
RECURSIVE DeltaLoop(_, _, _, _, _)
DeltaLoop(old, new, i, npx, diffs) ==
    IF i < npx
    THEN DeltaLoop(old, new, i + 1, npx,
                   IF Slice(old, i * 3, i * 3 + 3) # Slice(new, i * 3, i * 3 + 3)
                   THEN Append(diffs, i) ELSE diffs)
    ELSE diffs

\* a loop that compares the first byte of each triplet only
RECURSIVE DeltaLoopFirstByte(_, _, _, _, _)
DeltaLoopFirstByte(old, new, i, npx, diffs) ==
    IF i < npx
    THEN DeltaLoopFirstByte(old, new, i + 1, npx,
                   IF old[i * 3 + 1] # new[i * 3 + 1]
                   THEN Append(diffs, i) ELSE diffs)
    ELSE diffs

\* _delta_indices comparing first bytes
DeltaIndicesFirstByte(old, new) ==
    IF Len(old) = 0 \/ Len(old) # Len(new)
    THEN [k \in 1 .. (Len(new) \div 3) |-> k - 1]
    ELSE DeltaLoopFirstByte(old, new, 0, Len(new) \div 3, <<>>)

\* _delta_indices: "if not old or len(old) != len(new): return
\* list(range(len(new) // 3))", else the loop
DeltaIndices(old, new) ==
    IF Len(old) = 0 \/ Len(old) # Len(new)
    THEN [k \in 1 .. (Len(new) \div 3) |-> k - 1]
    ELSE DeltaLoop(old, new, 0, Len(new) \div 3, <<>>)

\* payloads of send_frame: every short one, and solid fills around the
\* byte boundary of the pixel count and at its 16-bit limit
SendFrameInputs ==
    [fn : {"send_frame"},
     payload : UNION { BuffersOf(n) : n \in 1 .. MaxW }
               \cup { Solid(n, c) : n \in {255, 256, 257}, c \in {<<0, 0, 1>>} },
     brightness : {0, 30, 255}]

\* solid fills of a whole panel: the default 16 x 16 one, one of two strips,
\* and one of 65535 pixels, the most the two count bytes can say
SolidFrameInputs ==
    [fn : {"send_solid"},
     dims : { <<16, 16, 1>>, <<2, 3, 2>>, <<255, 257, 1>> },
     rgb : { <<25, 0, 0>>, <<0, 0, 0>>, <<1, 2, 3>> },
     brightness : {0, 30, 255}]

\* rows of w pixels that are k pixels of one colour, then w - k of another
\* (or of the same): runs that reach and pass the cap
LongRows ==
    { [buf |-> Solid(s[2], c1) \o Solid(s[1] - s[2], c2), w |-> s[1], h |-> 1] :
          s \in { t \in {RunCap, RunCap + 1, RunCap + 2, 2 * RunCap + 1}
                          \X {0, 1, RunCap, RunCap + 1} : t[2] <= t[1] },
          c1 \in EncColors, c2 \in EncColors }

RleInputs ==
    { [fn |-> "rle", buf |-> b, w |-> w, h |-> h] :
          <<b, w, h>> \in
              UNION { { <<b, w, h>> : b \in BuffersOf(w * h) } :
                          <<w, h>> \in (1 .. MaxW) \X {1, 2} } }
    \cup { [fn |-> "rle", buf |-> r.buf, w |-> r.w, h |-> r.h] : r \in LongRows }

DeltaBuffers == UNION { BuffersOf(n) : n \in 0 .. MaxW }

DeltaInputs == [fn : {"delta"}, old : DeltaBuffers, new : DeltaBuffers]

NoInput == [fn |-> "none"]
NoOutput == [fn |-> "none"]

\* send_frame(ser, payload_grb, brightness)
EncSendFrame ==
    /\ encIn.fn = "send_frame" /\ encOut = NoOutput
    /\ encOut' = [fn |-> "send_frame",
                  writes |-> SendFrame(encIn.payload, encIn.brightness)]
    /\ UNCHANGED <<encIn, notEnc>>

\* send_frame(ser, build_solid_grb(w, h, su, rgb), brightness), the body of
\* _set_all.  Of the bytes written the state keeps the first seven, the
\* length, whether the rest is the payload, and of the payload its length
\* and the byte triplets that occur in it.
EncSendSolid ==
    /\ encIn.fn = "send_solid" /\ encOut = NoOutput
    /\ LET payload == BuildSolidGrb(encIn.dims[1], encIn.dims[2], encIn.dims[3],
                                    encIn.rgb)
           writes == SendFrame(payload, encIn.brightness)
       IN encOut' = [fn |-> "send_solid",
                     nwrites |-> Len(writes),
                     len |-> Len(writes[1]),
                     head |-> SubSeq(writes[1], 1, 7),
                     restIsPayload |->
                         SubSeq(writes[1], 8, Len(writes[1])) = payload,
                     plen |-> Len(payload),
                     triplets |->
                         { <<payload[3 * k + 1], payload[3 * k + 2],
                             payload[3 * k + 3]>> :
                               k \in 0 .. (Len(payload) \div 3) - 1 }]
    /\ UNCHANGED <<encIn, notEnc>>

\* _encode_rle_rows(buf, w, h)
EncRleRows ==
    /\ encIn.fn = "rle" /\ encOut = NoOutput
    /\ encOut' = [fn |-> "rle", rows |-> EncodeRleRows(encIn.buf, encIn.w, encIn.h)]
    /\ UNCHANGED <<encIn, notEnc>>

\* _delta_indices(old, new)
EncDeltaIndices ==
    /\ encIn.fn = "delta" /\ encOut = NoOutput
    /\ encOut' = [fn |-> "delta", diffs |-> DeltaIndices(encIn.old, encIn.new)]
    /\ UNCHANGED <<encIn, notEnc>>

InitEncIdle == encIn = NoInput /\ encOut = NoOutput


---------------------------------------------------------------------------
(* SpecMirror: the preview broadcast.  The broadcast loop and the          *)
(* connection handlers run on one event loop: a tick's snapshot, encoding  *)
(* and bookkeeping run without interruption, and other coroutines run at   *)
(* its awaits (the sleep and each ws.send).  A viewer is a page with a     *)
(* preview canvas that applies each message it receives.                   *)

\* number of viewers
NumViewers == 2

Viewers == 1 .. NumViewers

\* the page's frame_rle branch: the pixels the runs of one row paint, in
\* order ("for (const run of row) for (k < count) ... idx++")
RECURSIVE ExpandRuns(_)
ExpandRuns(row) ==
    IF row = <<>> THEN <<>>
    ELSE Solid(Head(row)[1], Head(row)[2]) \o ExpandRuns(Tail(row))

\* the page's frame_rle branch over all rows
RECURSIVE ExpandRows(_)
ExpandRows(rows) ==
    IF rows = <<>> THEN <<>> ELSE ExpandRuns(Head(rows)) \o ExpandRows(Tail(rows))

\* the page's delta branch: fillRect at idxs[j] with rgbs[j], j ascending
RECURSIVE PaintDelta(_, _, _, _)
PaintDelta(canvas, idxs, rgbs, j) ==
    IF j > Len(idxs) THEN canvas
    ELSE PaintDelta(IF idxs[j] < NumPixels
                    THEN PutRgb(canvas, idxs[j], rgbs[j]) ELSE canvas,
                    idxs, rgbs, j + 1)

\* ws.onmessage of the draw page: the canvas after message m
OnMessage(canvas, m) ==
    IF m.type = "frame_rle"
    THEN LET painted == ExpandRows(m.rows)
         IN [k \in 1 .. Len(canvas) |->
                IF k <= Len(painted) THEN painted[k] ELSE canvas[k]]
    ELSE IF m.type = "delta"
    THEN PaintDelta(canvas, m.indices, m.rgb, 1)
    ELSE canvas

\* a test that lets an empty diff through as a delta
UseDeltaAllowEmpty(lw, lh, w, h, ndiffs, npx) ==
    lw = w /\ lh = h /\ 10 * ndiffs < 4 * npx

\* a test that lets a diff of exactly 40% through as a delta
UseDeltaInclusive(lw, lh, w, h, ndiffs, npx) ==
    lw = w /\ lh = h /\ 0 < ndiffs /\ 10 * ndiffs <= 4 * npx

\* use_delta = self._last_w == w and self._last_h == h
\*             and 0 < len(diffs) < npx * 0.4
\* (for integers n < npx * 0.4 in floating point is 10 * n < 4 * npx)
UseDelta(lw, lh, w, h, ndiffs, npx) ==
    lw = w /\ lh = h /\ 0 < ndiffs /\ 10 * ndiffs < 4 * npx

\* a loop that appends [buf[o+2], buf[o+1], buf[o]]
DeltaRgbBgr(buf, indices) ==
    [k \in 1 .. Len(indices) |->
        <<buf[indices[k] * 3 + 3], buf[indices[k] * 3 + 2],
          buf[indices[k] * 3 + 1]>>]

\* "for i in indices: o = i * 3; rgb.append([buf[o], buf[o+1], buf[o+2]])"
RECURSIVE DeltaRgb(_, _)
DeltaRgb(buf, indices) ==
    IF indices = <<>> THEN <<>>
    ELSE << <<buf[Head(indices) * 3 + 1], buf[Head(indices) * 3 + 2],
              buf[Head(indices) * 3 + 3]>> >> \o DeltaRgb(buf, Tail(indices))

\* the delta message: "indices": diffs, "rgb": the triplets of buf at them
DeltaMessage(buf, w, h, changed) ==
    [type |-> "delta", w |-> w, h |-> h, indices |-> changed,
     rgb |-> DeltaRgb(buf, changed)]

\* the frame_rle message: "rows": self._encode_rle_rows(buf, w, h)
FrameRleMessage(buf, w, h) ==
    [type |-> "frame_rle", w |-> w, h |-> h, rows |-> EncodeRleRows(buf, w, h)]

\* the payload of a tick: delta or frame_rle
TickMessage(lastb, lw, lh, buf, w, h) ==
    IF UseDelta(lw, lh, w, h, Len(DeltaIndices(lastb, buf)), Len(buf) \div 3)
    THEN DeltaMessage(buf, w, h, DeltaIndices(lastb, buf))
    ELSE FrameRleMessage(buf, w, h)

\* a tick that never stores the dimensions
LastDimsKept(m, ld, w, h) == ld

\* "self._last_w, self._last_h = w, h", which only the frame_rle branch runs
LastDimsAfter(m, ld, w, h) == IF m.type = "frame_rle" THEN <<w, h>> ELSE ld

\* the panels whose ticks SpecEnc computes: one pixel, a square, a row and a
\* column of five, and two rows of three
TickDims == { <<1, 1>>, <<2, 2>>, <<5, 1>>, <<1, 5>>, <<3, 2>> }

\* the snapshots of n pixels over two colours
TickBuffers(n) == { Flat(px) : px \in [1 .. n -> { <<0, 0, 0>>, <<0, 0, 1>> }] }

\* _last_buf, _last_w, _last_h before a tick: as constructed, or as the tick
\* of some panel has left them
LastSent ==
    { [buf |-> <<>>, w |-> 0, h |-> 0] }
        \cup UNION { { [buf |-> b, w |-> d[1], h |-> d[2]] :
                          b \in TickBuffers(d[1] * d[2]) } : d \in TickDims }

TickInputs ==
    UNION { { [fn |-> "tick", last |-> l.buf, lw |-> l.w, lh |-> l.h,
               buf |-> b, w |-> d[1], h |-> d[2]] :
                  l \in LastSent, b \in TickBuffers(d[1] * d[2]) } :
            d \in TickDims }

\* the message of one tick of _broadcast_loop, from _last_buf, _last_w,
\* _last_h and the snapshot
EncTick ==
    /\ encIn.fn = "tick" /\ encOut = NoOutput
    /\ encOut' = [fn |-> "tick",
                  msg |-> TickMessage(encIn.last, encIn.lw, encIn.lh,
                                      encIn.buf, encIn.w, encIn.h)]
    /\ UNCHANGED <<encIn, notEnc>>

NextEnc ==
    EncSendFrame \/ EncSendSolid \/ EncRleRows \/ EncDeltaIndices \/ EncTick

\* a loop that applies the points last to first
RECURSIVE ApplyPointsReversed(_, _)
ApplyPointsReversed(f, pts) ==
    IF pts = <<>> THEN f
    ELSE UpdatePixel(ApplyPointsReversed(f, Tail(pts)), Head(pts).x, Head(pts).y,
                     [ok |-> TRUE,
                      rgb |-> <<Head(pts).r, Head(pts).g, Head(pts).b>>])

\* the for loop of a "points" message: update_pixel per point, in order
RECURSIVE ApplyPoints(_, _)
ApplyPoints(f, pts) ==
    IF pts = <<>> THEN f
    ELSE ApplyPoints(UpdatePixel(f, Head(pts).x, Head(pts).y,
                                 [ok |-> TRUE,
                                  rgb |-> <<Head(pts).r, Head(pts).g, Head(pts).b>>]),
                     Tail(pts))

\* the messages a viewer sends in SpecMirror: one point of the first row,
\* or clear
WsMessages ==
    { [type |-> "points", pts |-> <<[x |-> x, y |-> 0, r |-> 255, g |-> 0, b |-> 0]>>] :
          x \in Xs }
    \cup { [type |-> "clear"] }

NoMessage == [type |-> "none"]

\* _ws_handler starts: register_client, self.clients.add(websocket); the
\* viewer's page has a fresh canvas
\* register_client / unregister_client of the animation thread: the sender of
\* viewer v's handler
Register(wc, v) == wc \cup {v}

UnregisterKeeps(wc, v) == wc

Unregister(wc, v) == wc \ {v}

WsConnect(v) ==
    /\ conn[v] = "closed"
    /\ v \notin tickSubs
    /\ conn' = [conn EXCEPT ![v] = "open"]
    /\ clients' = clients \cup {v}
    /\ webClients' = Register(webClients, v)
    /\ preview' = [preview EXCEPT ![v] = Zeros(3 * NumPixels)]
    /\ delivered' = delivered \ {v}
    /\ failed' = failed \ {v}
    /\ UNCHANGED <<frame, dirty, stop, lastBuf, lastDims, bpc, msg, tickSubs,
                   pending, dead, notMir>>

\* _ws_handler, one message of "async for message in websocket"
WsMessage(v, m) ==
    /\ conn[v] = "open"
    /\ frame' = (IF m.type = "points" THEN ApplyPoints(frame, m.pts)
                 ELSE ClearPanel(frame))
    /\ dirty' = TRUE
    /\ UNCHANGED <<stop, mirVars, notMir>>

\* _ws_handler ends (the connection closed): the finally block
WsDisconnect(v) ==
    /\ conn[v] = "open"
    /\ conn' = [conn EXCEPT ![v] = "closed"]
    /\ webClients' = Unregister(webClients, v)
    /\ clients' = clients \ {v}
    /\ UNCHANGED <<frame, dirty, stop, preview, lastBuf, lastDims, bpc, msg,
                   tickSubs, pending, dead, delivered, failed, notMir>>

\* a broadcast loop that does not test stop
BcLoopTopForever ==
    /\ bpc = "top"
    /\ bpc' = "sleep"
    /\ UNCHANGED <<frame, dirty, stop, clients, webClients, conn, preview, lastBuf,
                   lastDims, msg, tickSubs, pending, dead, delivered, failed,
                   notMir>>

\* "while not self.stop_evt.is_set()": the loop ends, or sleeps a period
BcLoopTop ==
    /\ bpc = "top"
    /\ bpc' = (IF stop THEN "exit" ELSE "sleep")
    /\ UNCHANGED <<frame, dirty, stop, clients, webClients, conn, preview, lastBuf,
                   lastDims, msg, tickSubs, pending, dead, delivered, failed,
                   notMir>>

\* a test that never finds the subscriber set empty
NoClientsNever(cl) == FALSE

\* "if not self.clients: continue"
NoClients(cl) == cl = {}

\* _broadcast_loop after its sleep: nothing without clients; else the
\* snapshot, the diff, the message, _last_buf, and list(self.clients)
BcTickBegin ==
    /\ bpc = "sleep"
    /\ IF NoClients(clients)
       THEN /\ bpc' = "top"
            /\ UNCHANGED <<lastBuf, lastDims, msg, tickSubs, pending, dead,
                           delivered>>
       ELSE /\ msg' = TickMessage(lastBuf, lastDims[1], lastDims[2],
                                   FramebufferRgbBytes(frame), Width, Height)
            /\ lastDims' = LastDimsAfter(msg', lastDims, Width, Height)
            /\ lastBuf' = FramebufferRgbBytes(frame)
            /\ tickSubs' = clients
            /\ pending' = clients
            /\ dead' = {}
            /\ delivered' = {}
            /\ bpc' = "send"
    /\ UNCHANGED <<frame, dirty, stop, clients, webClients, conn, preview, failed, notMir>>

\* a send whose exception leaves the broadcast loop
BcSendPropagates(v, ok) ==
    /\ bpc = "send"
    /\ v \in pending
    /\ ok => conn[v] = "open"
    /\ pending' = pending \ {v}
    /\ IF ok
       THEN /\ preview' = [preview EXCEPT ![v] = OnMessage(preview[v], msg)]
            /\ delivered' = delivered \cup {v}
            /\ UNCHANGED <<dead, failed, bpc>>
       ELSE /\ bpc' = "crashed"
            /\ failed' = failed \cup {v}
            /\ UNCHANGED <<preview, delivered, dead>>
    /\ UNCHANGED <<frame, dirty, stop, clients, webClients, conn, lastBuf, lastDims, msg,
                   tickSubs, notMir>>

\* one "await ws.send(msg)" of the for loop: it returns and the viewer's
\* page applies the message, or it raises and the viewer joins dead
BcSend(v, ok) ==
    /\ bpc = "send"
    /\ v \in pending
    /\ ok => conn[v] = "open"
    /\ pending' = pending \ {v}
    /\ IF ok
       THEN /\ preview' = [preview EXCEPT ![v] = OnMessage(preview[v], msg)]
            /\ delivered' = delivered \cup {v}
            /\ UNCHANGED <<dead, failed>>
       ELSE /\ dead' = dead \cup {v}
            /\ failed' = failed \cup {v}
            /\ UNCHANGED <<preview, delivered>>
    /\ UNCHANGED <<frame, dirty, stop, clients, webClients, conn, lastBuf, lastDims, bpc,
                   msg, tickSubs, notMir>>

\* the for loop is over: "for ws in dead: self.clients.discard(ws)", and
\* the iteration of the while loop ends (its locals are dropped)
BcTickEnd ==
    /\ bpc = "send"
    /\ pending = {}
    /\ clients' = clients \ dead
    /\ tickSubs' = {}
    /\ dead' = {}
    /\ delivered' = {}
    /\ msg' = NoMessage
    /\ bpc' = "top"
    /\ UNCHANGED <<frame, dirty, stop, webClients, conn, preview, lastBuf, lastDims,
                   pending, failed, notMir>>

\* stop_evt.set() by the main thread
SetStop ==
    /\ ~stop
    /\ stop' = TRUE
    /\ UNCHANGED <<frame, dirty, mirVars, animVars, notAnim>>

\* the broadcast loop and the pages before the first tick
InitMirrorLoop ==
    /\ preview = [v \in Viewers |-> Zeros(3 * NumPixels)]
    /\ lastBuf = <<>>
    /\ lastDims = <<0, 0>>
    /\ bpc = "top"
    /\ msg = NoMessage
    /\ tickSubs = {}
    /\ pending = {}
    /\ dead = {}
    /\ delivered = {}
    /\ failed = {}

InitMirror ==
    /\ clients = {}
    /\ webClients = {}
    /\ conn = [v \in Viewers |-> "closed"]
    /\ InitMirrorLoop

\* the steps of the broadcast loop
BcStep ==
    \/ BcLoopTop
    \/ BcTickBegin
    \/ \E v \in Viewers, ok \in BOOLEAN : BcSend(v, ok)
    \/ BcTickEnd

NextMirror ==
    \/ \E v \in Viewers : WsConnect(v)
    \/ \E v \in Viewers, m \in WsMessages : WsMessage(v, m)
    \/ \E v \in Viewers : WsDisconnect(v)
    \/ BcLoopTop
    \/ BcTickBegin
    \/ \E v \in Viewers, ok \in BOOLEAN : BcSend(v, ok)
    \/ BcTickEnd
    \/ SetStop

---------------------------------------------------------------------------
(* SpecAnim: AnimationControllerThread.run.  Time is counted in units of   *)
(* the timeout of _dirty_evt.wait (0.01 s); run reads the clock once per   *)
(* iteration ("now") and the steps of an iteration take time.              *)

\* frame_period = 1.0 / self.fps, in time units
FramePeriod == 2
\* self._dirty_evt.wait(timeout=0.01), in time units
WaitTimeout == 1
\* brightness: int = 30
Brightness == 30

Modes == {"static", "animation", "draw"}

NoFrame == <<>>

\* _animate: every pixel becomes col
Animate(col) == [y \in Ys |-> [x \in Xs |-> col]]

\* a push that the dirty marker alone decides
PushDueDirtyOnly(nowDue, d) == d

\* push_due = now >= next_tick or self._dirty_evt.is_set()
PushDue(nowDue, d) == nowDue \/ d

\* "while not self.stop_evt.is_set(): now = time.time()", and
\* "if self.mode == 'animation': self._animate(now)" (col = colors[int(now) % 3])
AnLoopTop ==
    /\ apc = "top"
    /\ IF stop
       THEN /\ apc' = "done"
            /\ UNCHANGED <<frame, tickDue, age>>
       ELSE /\ apc' = "decide"
            /\ tickDue' = (due = 0)
            /\ age' = 0
            /\ IF mode = "animation"
               THEN \E col \in AnimColors : frame' = Animate(col)
               ELSE UNCHANGED frame
    /\ UNCHANGED <<dirty, stop, mode, sendToLed, link, ser, due, waited, sent,
                   lost,
                   unsent, notAnim>>

\* "push_due = ...; if self.send_to_led and push_due:"
AnDecide ==
    /\ apc = "decide"
    /\ apc' = (IF sendToLed /\ PushDue(tickDue, dirty) THEN "push" ELSE "wait")
    /\ waited' = 0
    /\ UNCHANGED <<frame, dirty, stop, mode, sendToLed, link, ser, due, age,
                   tickDue, sent, lost,
                   unsent, notAnim>>

\* "ser = self._ensure_serial(); if ser: try: payload = ...; send_frame(...)
\* except Exception: pass": the port opens and the write returns when the
\* transport is up, and raise otherwise
AnPush ==
    /\ apc = "push"
    /\ ser' = (IF ser = "none" /\ link = "down" THEN "none" ELSE "open")
    /\ IF ser' = "open" /\ link = "up"
       THEN /\ sent' = SendFrame(FrameBytesGrb(frame), Brightness)[1]
            /\ unsent' = FALSE
       ELSE UNCHANGED <<sent, unsent>>
    /\ apc' = "mark"
    /\ UNCHANGED <<frame, dirty, stop, mode, sendToLed, link, due, age, tickDue,
                   waited, lost, notAnim>>

\* "self._dirty_evt.clear(); next_tick = now + frame_period"
AnMark ==
    /\ apc = "mark"
    /\ dirty' = FALSE
    /\ due' = FramePeriod - age
    /\ apc' = "wait"
    /\ waited' = 0
    /\ lost' = FALSE
    /\ UNCHANGED <<frame, stop, mode, sendToLed, link, ser, age, tickDue, sent,
                   unsent, notAnim>>

\* "self._dirty_evt.wait(timeout=0.01)" returns: the event is set, or the
\* timeout has passed
AnWaitReturn ==
    /\ apc = "wait"
    /\ dirty \/ waited = WaitTimeout
    /\ apc' = "clear"
    /\ UNCHANGED <<frame, dirty, stop, mode, sendToLed, link, ser, due, age,
                   tickDue, waited, sent, lost,
                   unsent, notAnim>>

\* "self._dirty_evt.clear()" after the wait
AnClear ==
    /\ apc = "clear"
    /\ dirty' = FALSE
    /\ lost' = (lost \/ dirty)
    /\ apc' = "top"
    /\ UNCHANGED <<frame, stop, mode, sendToLed, link, ser, due, age, tickDue,
                   waited, sent, unsent, notAnim>>

\* one unit of time passes
Tick ==
    /\ \/ due > 0
       \/ apc = "wait" /\ waited < WaitTimeout
       \/ apc \in {"decide", "push", "mark"} /\ age < FramePeriod
    /\ due' = (IF due > 0 THEN due - 1 ELSE 0)
    /\ waited' = (IF apc = "wait" /\ waited < WaitTimeout THEN waited + 1
                  ELSE waited)
    /\ age' = (IF apc \in {"decide", "push", "mark"} /\ age < FramePeriod
               THEN age + 1 ELSE age)
    /\ UNCHANGED <<frame, dirty, stop, mode, sendToLed, link, ser, apc,
                   tickDue, sent, lost,
                   unsent, notAnim>>

\* another thread calls update_pixel(x, y, (255, 0, 0))
AnUpdatePixel(x, y) ==
    /\ frame' = UpdatePixel(frame, x, y, [ok |-> TRUE, rgb |-> <<255, 0, 0>>])
    /\ dirty' = TRUE
    /\ unsent' = TRUE
    /\ UNCHANGED <<stop, mode, sendToLed, link, ser, apc, due, age, tickDue,
                   waited, sent, lost, notAnim>>

\* another thread calls clear_panel()
AnClearPanel ==
    /\ frame' = ClearPanel(frame)
    /\ dirty' = TRUE
    /\ unsent' = TRUE
    /\ UNCHANGED <<stop, mode, sendToLed, link, ser, apc, due, age, tickDue,
                   waited, sent, lost, notAnim>>

\* set_mode(m)
SetMode(m) ==
    /\ mode' = (IF m \in Modes THEN m ELSE mode)
    /\ UNCHANGED <<frame, dirty, stop, sendToLed, link, ser, apc, due, age,
                   tickDue, waited, sent, lost,
                   unsent, notAnim>>

\* send_to_led is assigned ("can be toggled if you want preview-only")
SetSendToLed(b) ==
    /\ sendToLed' = b
    /\ UNCHANGED <<frame, dirty, stop, mode, link, ser, apc, due, age,
                   tickDue, waited, sent, lost,
                   unsent, notAnim>>

\* the transport goes down or comes up
SetLink(l) ==
    /\ link' = l
    /\ UNCHANGED <<frame, dirty, stop, mode, sendToLed, ser, apc, due, age,
                   tickDue, waited, sent, lost,
                   unsent, notAnim>>

InitAnim ==
    /\ mode = "static"
    /\ sendToLed = TRUE
    /\ link = "up"
    /\ ser = "none"
    /\ apc = "top"
    /\ due = 0
    /\ age = 0
    /\ tickDue = FALSE
    /\ waited = 0
    /\ sent = NoFrame
    /\ lost = FALSE
    /\ unsent = FALSE

\* the steps of run
AnStep ==
    \/ AnLoopTop
    \/ AnDecide
    \/ AnPush
    \/ AnMark
    \/ AnWaitReturn
    \/ AnClear

NextAnim ==
    \/ AnLoopTop
    \/ AnDecide
    \/ AnPush
    \/ AnMark
    \/ AnWaitReturn
    \/ AnClear
    \/ Tick
    \/ AnUpdatePixel(0, 0)
    \/ AnClearPanel
    \/ \E m \in {"static", "animation", "bogus"} : SetMode(m)
    \/ \E b \in BOOLEAN : SetSendToLed(b)
    \/ \E l \in {"up", "down"} : SetLink(l)
    \/ SetStop

---------------------------------------------------------------------------
(* SpecWs: the message loop of _ws_handler.  A message is what json.loads  *)
(* makes of it, or invalid JSON.  A JSON value is <<n>> for the number n   *)
(* and <<>> for a value int() raises on; a missing key is a missing field. *)
(* A colour string is the sequence of its characters: a hex digit is its   *)
(* value, any other character is NonHex.                                   *)

\* length of the longest "points" batch
MaxBatch == 2

NonHex == 16

PointKeys == {"x", "y", "r", "g", "b"}

\* p["k"] exists and int(p["k"]) returns
HasInt(p, k) == k \in DOMAIN p /\ Len(p[k]) = 1

\* int(p["x"]), int(p["y"]), (int(p["r"]), int(p["g"]), int(p["b"])) all
\* return
PointOk(p) == \A k \in PointKeys : HasInt(p, k)

\* the arguments of update_pixel for the point p
ParsePoint(p) ==
    [x |-> p.x[1], y |-> p.y[1], r |-> p.r[1], g |-> p.g[1], b |-> p.b[1]]

\* the points of "for p in pts" before the first one whose int() or
\* p[...] raises (the exception ends the loop)
RECURSIVE ParsedPrefix(_)
ParsedPrefix(pts) ==
    IF pts = <<>> \/ ~PointOk(Head(pts)) THEN <<>>
    ELSE <<ParsePoint(Head(pts))>> \o ParsedPrefix(Tail(pts))

\* int(s, 16) of a slice of the colour string; -1 when it raises
HexInt(s) ==
    IF s = <<>> \/ \E i \in 1 .. Len(s) : s[i] = NonHex THEN -1
    ELSE IF Len(s) = 1 THEN s[1]
    ELSE 16 * s[1] + s[2]

\* r, g, b = int(color[1:3], 16), int(color[3:5], 16), int(color[5:7], 16)
LegacyRgb(color) ==
    <<HexInt(Slice(color, 1, 3)), HexInt(Slice(color, 3, 5)),
      HexInt(Slice(color, 5, 7))>>

\* the legacy edit parses: both coordinates and the three bytes
LegacyOk(m) ==
    /\ \A k \in 1 .. 3 : LegacyRgb(m.color)[k] >= 0
    /\ HasInt(m, "x") /\ HasInt(m, "y")

\* the body of the try of _ws_handler on one message: the framebuffer and
\* the dirty event after it, whether or not the except clause was entered
HandleMessage(f, d, m) ==
    IF m.type = "invalid_json" THEN [frame |-> f, dirty |-> d]
    ELSE IF m.type = "points"
    THEN [frame |-> ApplyPoints(f, ParsedPrefix(m.pts)),
          dirty |-> d \/ ParsedPrefix(m.pts) # <<>>
                      \/ Len(ParsedPrefix(m.pts)) = Len(m.pts)]
    ELSE IF m.type = "clear"
    THEN [frame |-> ClearPanel(f), dirty |-> TRUE]
    ELSE IF LegacyOk(m)
    THEN [frame |-> UpdatePixel(f, m.x[1], m.y[1],
                                [ok |-> TRUE, rgb |-> LegacyRgb(m.color)]),
          dirty |-> TRUE]
    ELSE [frame |-> f, dirty |-> d]

\* "except Exception: continue": the loop goes on after every message
StillServing(m) == TRUE

\* the points of the batches: in and out of the grid, two colours, one
\* without a field, one with a value that is not a number
RawPoints ==
    { [x |-> <<x>>, y |-> <<0>>, r |-> <<c[1]>>, g |-> <<c[2]>>, b |-> <<c[3]>>] :
          x \in {0, 1, Width}, c \in {<<1, 2, 3>>, <<9, 9, 9>>} }
    \cup { [x |-> <<1>>, y |-> <<0>>, r |-> <<1>>, g |-> <<2>>],
           [x |-> <<>>, y |-> <<0>>, r |-> <<1>>, g |-> <<2>>, b |-> <<3>>] }

\* "#ff0001", "#fg0000", "#ff", "#12345"
LegacyColors ==
    { <<NonHex, 15, 15, 0, 0, 0, 1>>, <<NonHex, 15, NonHex, 0, 0, 0, 0>>,
      <<NonHex, 15, 15>>, <<NonHex, 1, 2, 3, 4, 5>> }

InboundMessages ==
    { [type |-> "invalid_json"], [type |-> "clear"] }
    \cup { [type |-> "points", pts |-> pts] :
              pts \in UNION { [1 .. n -> RawPoints] : n \in 0 .. MaxBatch } }
    \cup { [type |-> "legacy", x |-> <<0>>, y |-> <<0>>, color |-> c] :
              c \in LegacyColors }

\* one message of "async for message in websocket"
WsHandle(m) ==
    /\ wsServing
    /\ wsIn' = m
    /\ wsPre' = frame
    /\ frame' = HandleMessage(frame, dirty, m).frame
    /\ dirty' = HandleMessage(frame, dirty, m).dirty
    /\ wsServing' = StillServing(m)
    /\ UNCHANGED notWs

InitWs ==
    /\ wsIn = [type |-> "none"]
    /\ wsPre = InitFrame
    /\ wsServing = TRUE

NextWs == \E m \in InboundMessages : WsHandle(m)

---------------------------------------------------------------------------
(***************************************************************************)
(* LEDThread (app/led_controller.py): run, the thread that calls           *)
(* set_pattern, and the serial transport                                   *)
(***************************************************************************)

\* the sleeps of 0.05 s that the hold loop of one colour makes before
\* hold_sec has passed
HoldSleeps == 1

\* strips_used: int = 1
StripsUsed == 1

\* the names set_pattern is called with: the two the code tests for and one
\* that is neither
PatternNames == {"off", "rgb_cycle", "other"}

\* ("RED", (25, 0, 0)), ("GREEN", (0, 25, 0)), ("BLUE", (0, 0, 25))
CycleColors == << <<25, 0, 0>>, <<0, 25, 0>>, <<0, 0, 25>> >>

NoColor == <<>>

\* what _set_all(color) writes: send_frame(ser, build_solid_grb(self.width,
\* self.height, self.strips_used, color), self._get_brightness())
LedFrame(color) ==
    SendFrame(BuildSolidGrb(Width, Height, StripsUsed, color), Brightness)[1]

\* an _ensure_serial that opens the port on every call
EnsureSerialReopens(s, l) ==
    [ser |-> (IF l = "up" THEN "open" ELSE "none"), opened |-> TRUE]

\* _ensure_serial on self.ser = s with the transport in state l: the new
\* self.ser, which is also what it returns, and whether it called
\* serial.Serial; the failure of serial.Serial is caught
EnsureSerial(s, l) ==
    IF s = "open"
    THEN [ser |-> "open", opened |-> FALSE]
    ELSE [ser |-> (IF l = "up" THEN "open" ELSE "none"), opened |-> TRUE]

\* the clear only on the transition to "off"
LeftCycleToOff(lastp, curp) == lastp = "rgb_cycle" /\ curp = "off"

\* "if last_pattern == "rgb_cycle" and pattern != "rgb_cycle""
LeftCycle(lastp, curp) == lastp = "rgb_cycle" /\ curp # "rgb_cycle"

\* (history) what has been written since set_pattern("off") took the
\* pattern off rgb_cycle, after one more frame of colour c
OffWatchAfter(w, c) ==
    IF w = "armed" THEN (IF c = Black THEN "blacked" ELSE "broken") ELSE w

ledHist == <<opened, offWatch, wLast, wWrites, wTry, entered, stopAtStart,
             portDropped, steady>>
ledCaller == <<cpc, cser>>
ledLocals == <<curPattern, lastPattern, colIdx, held, wcol, wafter, wser>>

\* run: "ser = self._ensure_serial()", "if not ser:"
LedStart ==
    /\ lpc = "start"
    /\ lser' = EnsureSerial(lser, port).ser
    /\ opened' = EnsureSerial(lser, port).opened
    /\ lpc' = (IF lser' = "none" THEN "noser" ELSE "rdy")
    /\ stopAtStart' = stop
    /\ UNCHANGED <<pattern, port, ledLocals, ledCaller, wire, offWatch, wLast,
                   wWrites, wTry, steady, entered, portDropped, stop, notLed>>

\* an idle loop that tries the port again and goes on when it opens
LedIdleRetries ==
    /\ lpc = "noser"
    /\ lser' = EnsureSerial(lser, port).ser
    /\ opened' = EnsureSerial(lser, port).opened
    /\ lpc' = (IF lser' = "none" THEN "noser" ELSE "rdy")
    /\ UNCHANGED <<pattern, port, ledLocals, ledCaller, wire, offWatch, wLast,
                   wWrites, wTry, steady, entered, stopAtStart, portDropped, stop,
                   notLed>>

\* run without a transport: "while not self.stop_evt.is_set():
\* time.sleep(0.5)", then "return"
LedIdleReturn ==
    /\ lpc = "noser"
    /\ stop
    /\ lpc' = "done"
    /\ UNCHANGED <<pattern, lser, port, ledLocals, ledCaller, wire, ledHist,
                   stop, notLed>>

\* run: "ser.reset_input_buffer()" and the wait for RDY, outside the try: on
\* a transport that is down they raise and run ends there
LedAwaitReady ==
    /\ lpc = "rdy"
    /\ lpc' = (IF port = "up" THEN "top" ELSE "died")
    /\ UNCHANGED <<pattern, lser, port, ledLocals, ledCaller, wire, ledHist,
                   stop, notLed>>

\* a loop that does not test stop
LoopRunsAlways(s) == TRUE

\* run: "while not self.stop_evt.is_set():"
LoopRuns(s) == ~s

\* run: the head of the main loop and "pattern = self._current_pattern()";
\* when the loop is over the finally clause begins, with _clear_immediate()
LedLoopTop ==
    /\ lpc = "top"
    /\ IF ~LoopRuns(stop)
       THEN /\ lpc' = "ensure"
            /\ wcol' = Black
            /\ wafter' = "close"
            /\ UNCHANGED <<curPattern, entered>>
       ELSE /\ curPattern' = pattern
            /\ entered' = TRUE
            /\ lpc' = "trans"
            /\ UNCHANGED <<wcol, wafter>>
    /\ UNCHANGED <<pattern, lser, port, lastPattern, colIdx, held, wser,
                   ledCaller, wire, opened, offWatch, wLast, wWrites, wTry, steady,
                   stopAtStart, portDropped, stop, notLed>>

\* run: the clear on the transition away from rgb_cycle
LedTransition ==
    /\ lpc = "trans"
    /\ IF LeftCycle(lastPattern, curPattern)
       THEN /\ lpc' = "ensure"
            /\ wcol' = Black
            /\ wafter' = "branch"
       ELSE /\ lpc' = "branch"
            /\ UNCHANGED <<wcol, wafter>>
    /\ UNCHANGED <<pattern, lser, port, curPattern, lastPattern, colIdx, held,
                   wser, ledCaller, wire, ledHist, stop, notLed>>

\* run: "if pattern == "rgb_cycle":" ... "else: time.sleep(0.1)"
LedBranch ==
    /\ lpc = "branch"
    /\ IF curPattern = "rgb_cycle"
       THEN /\ colIdx' = 0
            /\ lpc' = "forcheck"
       ELSE /\ lpc' = "endit"
            /\ UNCHANGED colIdx
    /\ UNCHANGED <<pattern, lser, port, curPattern, lastPattern, held, wcol,
                   wafter, wser, ledCaller, wire, ledHist, stop, notLed>>

\* run: the head of the for loop, "if self.stop_evt.is_set() or
\* self._current_pattern() != "rgb_cycle": break", then "self._set_all(col)"
\* begins
LedForCheck ==
    /\ lpc = "forcheck"
    /\ IF colIdx = Len(CycleColors) \/ stop \/ pattern # "rgb_cycle"
       THEN /\ lpc' = "endit"
            /\ UNCHANGED <<wcol, wafter, held>>
       ELSE /\ lpc' = "ensure"
            /\ wcol' = CycleColors[colIdx + 1]
            /\ wafter' = "hold"
            /\ held' = 0
    /\ UNCHANGED <<pattern, lser, port, curPattern, lastPattern, colIdx, wser,
                   ledCaller, wire, ledHist, stop, notLed>>

\* _set_all in run: "ser = self._ensure_serial()", "if not ser: return"
LedEnsure ==
    /\ lpc = "ensure"
    /\ lser' = EnsureSerial(lser, port).ser
    /\ opened' = EnsureSerial(lser, port).opened
    /\ wser' = lser'
    /\ lpc' = (IF lser' = "none" THEN wafter ELSE "write")
    /\ UNCHANGED <<pattern, port, curPattern, lastPattern, colIdx, held, wcol,
                   wafter, ledCaller, wire, offWatch, wLast, wWrites, wTry, steady,
                   entered, stopAtStart, portDropped, stop, notLed>>

\* _set_all in run: "with self._io_lock: send_frame(...)".  The write raises
\* on a transport that is down; _clear_immediate swallows that, the call
\* "self._set_all(col)" of the for loop does not, and the finally clause
\* begins
LedWrite ==
    /\ lpc = "write"
    /\ wTry' = [col |-> wcol, up |-> port = "up"]
    /\ wser' = "none"
    /\ IF port = "up"
       THEN /\ wire' = LedFrame(wcol)
            /\ wLast' = wcol
            /\ wWrites' = (IF wWrites < 2 THEN wWrites + 1 ELSE 2)
            /\ steady' = (pattern = "rgb_cycle")
            /\ offWatch' = OffWatchAfter(offWatch, wcol)
            /\ lpc' = wafter
            /\ UNCHANGED <<wcol, wafter>>
       ELSE /\ UNCHANGED <<wire, wLast, wWrites, offWatch, steady>>
            /\ IF wcol = Black
               THEN /\ lpc' = wafter
                    /\ UNCHANGED <<wcol, wafter>>
               ELSE /\ lpc' = "ensure"
                    /\ wcol' = Black
                    /\ wafter' = "close"
    /\ UNCHANGED <<pattern, lser, port, curPattern, lastPattern, colIdx, held,
                   ledCaller, opened, entered, stopAtStart, portDropped, stop,
                   notLed>>

\* run: the hold loop of one colour, one sleep of 0.05 s per step, and the
\* next colour after it
LedHold ==
    /\ lpc = "hold"
    /\ IF ~stop /\ pattern = "rgb_cycle" /\ held < HoldSleeps
       THEN /\ held' = held + 1
            /\ UNCHANGED <<lpc, colIdx>>
       ELSE /\ colIdx' = colIdx + 1
            /\ lpc' = "forcheck"
            /\ UNCHANGED held
    /\ UNCHANGED <<pattern, lser, port, curPattern, lastPattern, wcol, wafter,
                   wser, ledCaller, wire, ledHist, stop, notLed>>

\* run: "last_pattern = pattern"
LedEndIteration ==
    /\ lpc = "endit"
    /\ lastPattern' = curPattern
    /\ lpc' = "top"
    /\ UNCHANGED <<pattern, lser, port, curPattern, colIdx, held, wcol, wafter,
                   wser, ledCaller, wire, ledHist, stop, notLed>>

\* a finally clause that leaves self.ser as it is
LedCloseKeepsHandle ==
    /\ lpc = "close"
    /\ lpc' = "done"
    /\ UNCHANGED <<pattern, lser, port, ledLocals, ledCaller, wire, ledHist,
                   stop, notLed>>

\* run: "self._close_serial()" at the end of the finally clause; the handle
\* another thread still holds is closed with it
LedClose ==
    /\ lpc = "close"
    /\ lser' = "none"
    /\ cser' = (IF cser = "open" THEN "closed" ELSE cser)
    /\ lpc' = "done"
    /\ UNCHANGED <<pattern, port, ledLocals, cpc, wire, ledHist, stop, notLed>>

\* set_pattern(name): "self._pattern = name", and for "off" the call of
\* _clear_immediate begins
SetPattern(name) ==
    /\ cpc = "idle"
    /\ pattern' = name
    /\ cpc' = (IF name = "off" THEN "ensure" ELSE "idle")
    /\ offWatch' = (IF name # "off" THEN "idle"
                    ELSE IF pattern = "rgb_cycle" THEN "armed" ELSE offWatch)
    /\ steady' = (steady /\ name = "rgb_cycle")
    /\ UNCHANGED <<lser, port, lpc, ledLocals, cser, wire, opened, wLast,
                   wWrites, wTry, entered, stopAtStart, portDropped, stop,
                   notLed>>

\* _set_all in set_pattern("off"): "ser = self._ensure_serial()", "if not
\* ser: return"
CallerEnsure ==
    /\ cpc = "ensure"
    /\ lser' = EnsureSerial(lser, port).ser
    /\ opened' = EnsureSerial(lser, port).opened
    /\ cser' = lser'
    /\ cpc' = (IF lser' = "none" THEN "idle" ELSE "write")
    /\ UNCHANGED <<pattern, port, lpc, ledLocals, wire, offWatch, wLast,
                   wWrites, wTry, steady, entered, stopAtStart, portDropped, stop,
                   notLed>>

\* _set_all in set_pattern("off"): the write of the black frame, whose
\* failure _clear_immediate swallows
CallerWrite ==
    /\ cpc = "write"
    /\ IF cser = "open" /\ port = "up"
       THEN /\ wire' = LedFrame(Black)
            /\ offWatch' = OffWatchAfter(offWatch, Black)
       ELSE UNCHANGED <<wire, offWatch>>
    /\ cpc' = "idle"
    /\ cser' = "none"
    /\ UNCHANGED <<pattern, lser, port, lpc, ledLocals, opened, wLast, wWrites,
                   wTry, steady, entered, stopAtStart, portDropped, stop, notLed>>

\* the transport comes up or goes down
SetPort(l) ==
    /\ port # l
    /\ port' = l
    /\ portDropped' = (portDropped \/ l = "down")
    /\ offWatch' = (IF l = "down" THEN "idle" ELSE offWatch)
    /\ UNCHANGED <<pattern, lser, lpc, ledLocals, ledCaller, wire, opened,
                   wLast, wWrites, wTry, steady, entered, stopAtStart, stop, notLed>>

\* LEDThread before run has begun, whatever the pattern and the transport
InitLedRun ==
    /\ lser = "none"
    /\ lpc = "start"
    /\ curPattern = "none"
    /\ lastPattern = "none"
    /\ colIdx = 0
    /\ held = 0
    /\ wcol = Black
    /\ wafter = "branch"
    /\ wser = "none"
    /\ cpc = "idle"
    /\ cser = "none"
    /\ wire = NoFrame
    /\ opened = FALSE
    /\ offWatch = "idle"
    /\ wLast = NoColor
    /\ wWrites = 0
    /\ wTry = [col |-> NoColor, up |-> FALSE]
    /\ entered = FALSE
    /\ stopAtStart = FALSE
    /\ portDropped = FALSE
    /\ steady = FALSE

InitLed ==
    /\ pattern = "off"
    /\ port = "up"
    /\ InitLedRun

\* the steps of run
LedStep ==
    \/ LedStart
    \/ LedIdleReturn
    \/ LedAwaitReady
    \/ LedLoopTop
    \/ LedTransition
    \/ LedBranch
    \/ LedForCheck
    \/ LedEnsure
    \/ LedWrite
    \/ LedHold
    \/ LedEndIteration
    \/ LedClose

\* the steps that finish a call of set_pattern
CallerStep == CallerEnsure \/ CallerWrite

NextLed ==
    \/ LedStep
    \/ CallerStep
    \/ \E name \in PatternNames : SetPattern(name)
    \/ \E l \in {"up", "down"} : SetPort(l)
    \/ SetStop

(***************************************************************************)
(* The sends on the handle of LEDThread (app/led_controller.py): _io_lock  *)
(* and send_frame, under the worker and the threads that call              *)
(* set_pattern("off"), stop_test or send_raw_frame                         *)
(***************************************************************************)

\* the threads that send: thread 1 is the worker (run), the others call the
\* public API
NumSenders == 3
Senders == 1 .. NumSenders

\* the sends a thread makes: the worker's _set_all(col) and
\* _clear_immediate, a caller's set_pattern("off") (stop_test is the same
\* call) and send_raw_frame
SendKinds(t) == IF t = 1 THEN {"set_all", "clear"} ELSE {"off", "raw"}

\* the positions of a thread inside send_frame: before the bytes of
\* ser.write are on the wire, between the two parts the transport takes them
\* in, and in flush and the acknowledgement read
InSendFrame == {"write", "written1", "ack"}

\* a lock that is always free
IoFreeAlways(l) == TRUE

\* _io_lock can be acquired
IoFree(l) == l = NoThread

\* _set_all, send_raw_frame: "ser = self._ensure_serial()" has returned the
\* handle and the thread reaches "with self._io_lock:"
IoCall(t, kind) ==
    /\ iopc[t] = "idle"
    /\ iopc' = [iopc EXCEPT ![t] = "lock"]
    /\ ioKind' = [ioKind EXCEPT ![t] = kind]
    /\ UNCHANGED <<ioLock, ioOpen, ioTorn, notIo>>

\* "with self._io_lock:": the lock is acquired
IoAcquire(t) ==
    /\ iopc[t] = "lock"
    /\ IoFree(ioLock)
    /\ ioLock' = t
    /\ iopc' = [iopc EXCEPT ![t] = "write"]
    /\ UNCHANGED <<ioKind, ioOpen, ioTorn, notIo>>

\* send_frame: "ser.write(hdr + payload_grb)" puts the first part of the
\* bytes on the wire, or raises with nothing written; the exception leaves
\* the with statement, which releases the lock
IoWriteFirst(t, ok) ==
    /\ iopc[t] = "write"
    /\ IF ok
       THEN /\ ioTorn' = (ioTorn \/ ioOpen # NoThread)
            /\ ioOpen' = t
            /\ iopc' = [iopc EXCEPT ![t] = "written1"]
            /\ UNCHANGED <<ioLock, ioKind>>
       ELSE /\ iopc' = [iopc EXCEPT ![t] = "idle"]
            /\ ioKind' = [ioKind EXCEPT ![t] = "none"]
            /\ ioLock' = (IF ioLock = t THEN NoThread ELSE ioLock)
            /\ UNCHANGED <<ioOpen, ioTorn>>
    /\ UNCHANGED notIo

\* send_frame: the rest of the bytes of that ser.write
IoWriteRest(t) ==
    /\ iopc[t] = "written1"
    /\ ioTorn' = (ioTorn \/ ioOpen # t)
    /\ ioOpen' = NoThread
    /\ iopc' = [iopc EXCEPT ![t] = "ack"]
    /\ UNCHANGED <<ioLock, ioKind, notIo>>

\* send_frame: "ser.flush()", "ser.timeout = 2" and the acknowledgement
\* read, whose failure is swallowed; the with statement releases the lock
IoAck(t) ==
    /\ iopc[t] = "ack"
    /\ iopc' = [iopc EXCEPT ![t] = "idle"]
    /\ ioKind' = [ioKind EXCEPT ![t] = "none"]
    /\ ioLock' = (IF ioLock = t THEN NoThread ELSE ioLock)
    /\ UNCHANGED <<ioOpen, ioTorn, notIo>>

InitIo ==
    /\ ioLock = NoThread
    /\ iopc = [t \in Senders |-> "idle"]
    /\ ioKind = [t \in Senders |-> "none"]
    /\ ioOpen = NoThread
    /\ ioTorn = FALSE

NextIo ==
    \E t \in Senders :
        \/ \E kind \in SendKinds(t) : IoCall(t, kind)
        \/ IoAcquire(t)
        \/ \E ok \in BOOLEAN : IoWriteFirst(t, ok)
        \/ IoWriteRest(t)
        \/ IoAck(t)

(***************************************************************************)
(* The brightness byte of the frames the two workers write                 *)
(* (app/led_controller.py, app/animation_controller.py)                    *)
(***************************************************************************)

\* LEDThread.__init__: brightness: int = 30
DefaultBrightness == 30

\* what settings hold for led.brightness: no such key, a value int() takes,
\* or a value on which int() raises
LedSettings ==
    {[kind |-> "absent", val |-> 0], [kind |-> "bad", val |-> 0]}
        \cup {[kind |-> "int", val |-> v] : v \in {0, 5, 20, 100, 255}}

\* LEDThread._get_brightness with the settings holding st
GetBrightness(st) == IF st.kind = "int" THEN st.val ELSE DefaultBrightness

\* the menu or the settings file changes led.brightness
SetLedSetting(st) ==
    /\ ledSetting # st
    /\ ledSetting' = st
    /\ UNCHANGED <<bSent, bBy, bAt, notBr>>

\* LEDThread._set_all(color) on an open transport
BrLedSetAll(color) ==
    /\ bSent' = SendFrame(BuildSolidGrb(Width, Height, StripsUsed, color),
                          GetBrightness(ledSetting))[1]
    /\ bBy' = "led"
    /\ bAt' = ledSetting
    /\ UNCHANGED <<ledSetting, notBr>>

\* AnimationControllerThread.run on an open transport: "send_frame(ser,
\* payload, brightness=self.brightness)"
BrAnimPush ==
    /\ bSent' = SendFrame(FrameBytesGrb(frame), Brightness)[1]
    /\ bBy' = "anim"
    /\ bAt' = ledSetting
    /\ UNCHANGED <<ledSetting, notBr>>

InitBright ==
    /\ ledSetting = [kind |-> "absent", val |-> 0]
    /\ bSent = NoFrame
    /\ bBy = "none"
    /\ bAt = [kind |-> "absent", val |-> 0]

NextBright ==
    \/ \E st \in LedSettings : SetLedSetting(st)
    \/ \E k \in 1 .. Len(CycleColors) : BrLedSetAll(CycleColors[k])
    \/ BrLedSetAll(Black)
    \/ BrAnimPush

(***************************************************************************)
(* MenuController (app/menu_engine.py): SELECT on a focused "select" item  *)
(***************************************************************************)

\* the longest list of options, the values an option takes, and the SELECT
\* events followed
MaxOpts == 3
MaxOptValue == 3
MaxSelects == 4

RECURSIVE SeqsUpTo(_, _)
\* the lists of at most n elements of the set vals
SeqsUpTo(vals, n) ==
    IF n = 0 THEN {<<>>}
    ELSE SeqsUpTo(vals, n - 1)
            \cup {Append(q, v) : q \in {r \in SeqsUpTo(vals, n - 1) : Len(r) = n - 1},
                                 v \in vals}

\* the lists "options" of a select item
OptionLists == SeqsUpTo(1 .. MaxOptValue, MaxOpts)

\* the values the bound setting starts with: absent, an option value, or a
\* value that no list holds
StartValues == {<<>>} \cup {<<v>> : v \in 1 .. MaxOptValue + 1}

\* opts.index(cur), from 0, or -1 for the ValueError
IndexOf(opts, cur) ==
    IF \E k \in 1 .. Len(opts) : opts[k] = cur
    THEN (CHOOSE k \in 1 .. Len(opts) :
              opts[k] = cur /\ \A j \in 1 .. k - 1 : opts[j] # cur) - 1
    ELSE -1

\* _get_binding(binding, opts[0])
CurrentOr(val, opts) == IF val = <<>> THEN opts[1] ELSE val[1]

\* a rotation that stays on the last option
NextOptionNoWrap(opts, val) ==
    IF IndexOf(opts, CurrentOr(val, opts)) + 1 >= Len(opts)
    THEN opts[Len(opts)]
    ELSE opts[IndexOf(opts, CurrentOr(val, opts)) + 2]

\* _activate, type "select": new_val = opts[(i + 1) % len(opts)]
NextOption(opts, val) ==
    opts[((IndexOf(opts, CurrentOr(val, opts)) + 1) % Len(opts)) + 1]

\* MenuController(menu_spec, settings, save_cb), with the focus on a select
\* item whose options are opts and whose binding holds val
MenuLoad(opts, val) ==
    /\ ~mLoaded
    /\ mLoaded' = TRUE
    /\ mOpts' = opts
    /\ mVal' = val
    /\ mStart' = val
    /\ UNCHANGED <<mPrev, mCount, mSaves, notMenu>>

\* on_event("SELECT") on that item: _activate, and _apply_binding with its
\* save_cb; without options nothing is written
MenuSelect ==
    /\ mLoaded
    /\ mCount < MaxSelects
    /\ mCount' = mCount + 1
    /\ mPrev' = mVal
    /\ IF mOpts = <<>>
       THEN UNCHANGED <<mVal, mSaves>>
       ELSE /\ mVal' = <<NextOption(mOpts, mVal)>>
            /\ mSaves' = mSaves + 1
    /\ UNCHANGED <<mLoaded, mOpts, mStart, notMenu>>

InitMenu ==
    /\ mLoaded = FALSE
    /\ mOpts = <<>>
    /\ mVal = <<>>
    /\ mPrev = <<>>
    /\ mStart = <<>>
    /\ mCount = 0
    /\ mSaves = 0

NextMenu ==
    \/ \E opts \in OptionLists, val \in StartValues : MenuLoad(opts, val)
    \/ MenuSelect

(***************************************************************************)
(* DisplayThread.run (app/interface.py): backlight, sleep and screensaver  *)
(***************************************************************************)

\* the longest idle time followed, in steps of 10 s
MaxIdleTicks == 3
\* the largest home menu of SpecPointer, and the most options of a screen
MaxScreens == 3
MaxScreenOpts == 3

\* what the settings hold under "display": brightness, sleep_seconds,
\* screensaver_enabled
DisplaySettings ==
    [brightness : {0, 77, 150}, sleep_seconds : {0, 10, 30},
     screensaver_enabled : BOOLEAN]

\* _apply_brightness: val = max(0, min(100, val)), given to the backlight
ApplyBrightness(val) == IF val < 0 THEN 0 ELSE IF val > 100 THEN 100 ELSE val

\* _sleeping(idle_s, settings)
Sleeping(idle_s, st) == st.sleep_seconds > 0 /\ idle_s >= st.sleep_seconds

\* _screensaver(idle_s, settings)
Screensaver(idle_s, st) ==
    /\ st.screensaver_enabled
    /\ st.sleep_seconds > 20
    /\ idle_s >= st.sleep_seconds - 10

\* run, screensaver: target = max(5, int(brightness) // 4)
SaverTarget(st) ==
    IF st.brightness \div 4 < 5 THEN 5 ELSE st.brightness \div 4

\* run: "while not self.stop_evt.is_set():", "settings =
\* self.get_settings()"; with stop set, the finally clause and its
\* _apply_brightness(0)
DispLoopTop ==
    /\ dpc = "top"
    /\ IF stop
       THEN /\ dpc' = "done"
            /\ dBacklight' = ApplyBrightness(0)
            /\ UNCHANGED <<dLocal, dIter, dBranch>>
       ELSE /\ dpc' = "apply"
            /\ dLocal' = dSettings
            /\ dIter' = <<>>
            /\ dBranch' = "none"
            /\ UNCHANGED dBacklight
    /\ UNCHANGED <<dSettings, dIdleTicks, stop, notDisp>>

\* run: "self._apply_brightness(settings.get("display",
\* {}).get("brightness", 100))"
DispApplyConfigured ==
    /\ dpc = "apply"
    /\ dBacklight' = ApplyBrightness(dLocal.brightness)
    /\ dIter' = Append(dIter, dBacklight')
    /\ dpc' = "branch"
    /\ UNCHANGED <<dSettings, dIdleTicks, dLocal, dBranch, stop, notDisp>>

\* run: "idle = time.time() - self.controller.last_input_ts" and the branch
\* the iteration takes: sleeping, screensaver or the normal render
DispBranch ==
    /\ dpc = "branch"
    /\ IF Sleeping(10 * dIdleTicks, dLocal)
       THEN /\ dBacklight' = ApplyBrightness(0)
            /\ dIter' = Append(dIter, dBacklight')
            /\ dBranch' = "sleeping"
       ELSE IF Screensaver(10 * dIdleTicks, dLocal)
       THEN /\ dBacklight' = ApplyBrightness(SaverTarget(dLocal))
            /\ dIter' = Append(dIter, dBacklight')
            /\ dBranch' = "screensaver"
       ELSE /\ dBranch' = "render"
            /\ UNCHANGED <<dBacklight, dIter>>
    /\ dpc' = "top"
    /\ UNCHANGED <<dSettings, dIdleTicks, dLocal, stop, notDisp>>

\* ten more seconds without input
DispIdle ==
    /\ dIdleTicks < MaxIdleTicks
    /\ dIdleTicks' = dIdleTicks + 1
    /\ UNCHANGED <<dSettings, dpc, dLocal, dBacklight, dBranch, dIter, stop,
                   notDisp>>

\* a button: MenuController.on_event sets last_input_ts
DispInput ==
    /\ dIdleTicks > 0
    /\ dIdleTicks' = 0
    /\ UNCHANGED <<dSettings, dpc, dLocal, dBacklight, dBranch, dIter, stop,
                   notDisp>>

\* the settings change
DispSetSettings(st) ==
    /\ dSettings # st
    /\ dSettings' = st
    /\ UNCHANGED <<dIdleTicks, dpc, dLocal, dBacklight, dBranch, dIter, stop,
                   notDisp>>

\* DisplayThread.__init__ has applied the configured brightness
InitDisplay ==
    /\ dSettings = [brightness |-> 77, sleep_seconds |-> 10,
                    screensaver_enabled |-> FALSE]
    /\ dIdleTicks = 0
    /\ dpc = "top"
    /\ dLocal = dSettings
    /\ dBacklight = 77
    /\ dBranch = "none"
    /\ dIter = <<>>

NextDisplay ==
    \/ DispLoopTop
    \/ DispApplyConfigured
    \/ DispBranch
    \/ DispIdle
    \/ DispInput
    \/ \E st \in DisplaySettings : DispSetSettings(st)
    \/ SetStop

---------------------------------------------------------------------------
(* SpecPush: the push of AnimationControllerThread.run next to the calls   *)
(* of other threads on the framebuffer.  The worker is the first thread of *)
(* SpecFB; every transport call (the open, send_frame) is entered in one   *)
(* step and left in another, and may never be left.                        *)

Worker == NoThread + 1
Callers == Threads \ {Worker}

\* "ser = self._ensure_serial()": self.ser is returned, or serial.Serial is
\* called
PushEnsure ==
    /\ ppc = "ensure"
    /\ ppc' = (IF pser = "open" THEN "grb" ELSE "opening")
    /\ UNCHANGED <<pser, notPush>>

\* serial.Serial(...) returns or raises; "if ser:"
PushOpened(ok) ==
    /\ ppc = "opening"
    /\ pser' = (IF ok THEN "open" ELSE "none")
    /\ ppc' = (IF ok THEN "grb" ELSE "mark")
    /\ UNCHANGED notPush

\* "payload = self._frame_bytes_grb()", step by step
PushRead ==
    /\ ppc = "grb"
    /\ \/ FbReadCall(Worker, "_frame_bytes_grb")
       \/ FbReadStep(Worker)
       \/ FbReadEnd(Worker)

\* "send_frame(ser, payload, brightness=self.brightness)" is entered
PushSendBegin ==
    /\ ppc = "grb"
    /\ pc[Worker] = "returned"
    /\ ppc' = "send"
    /\ UNCHANGED <<pser, notPush>>

\* send_frame returns or raises ("except Exception: pass")
PushSendEnd ==
    /\ ppc = "send"
    /\ ppc' = "mark"
    /\ UNCHANGED <<pser, notPush>>

\* "self._dirty_evt.clear(); next_tick = now + frame_period", and the rest
\* of the iteration up to the next push
PushMark ==
    /\ ppc = "mark"
    /\ ppc' = "ensure"
    /\ dirty' = FALSE
    /\ pc' = [pc EXCEPT ![Worker] = "idle"]
    /\ op' = [op EXCEPT ![Worker] = NoOp]
    /\ idx' = [idx EXCEPT ![Worker] = 0]
    /\ out' = [out EXCEPT ![Worker] = <<>>]
    /\ UNCHANGED <<frame, stop, frameLock, seen, pser, apiVars, encVars,
                   mirVars, animVars, wsVars, ledVars, ioVars, brVars,
                   menuVars, dispVars, openVars, ptrVars>>

InitPush ==
    /\ ppc = "ensure"
    /\ pser = "none"

NextPush ==
    \/ PushEnsure
    \/ \E ok \in BOOLEAN : PushOpened(ok)
    \/ PushRead
    \/ PushSendBegin
    \/ PushSendEnd
    \/ PushMark
    \/ \E t \in Callers :
           \/ \E x \in Xs, y \in Ys, c \in CallColors :
                  FbUpdatePixelCall(t, x, y, c)
           \/ FbUpdatePixelStore(t)
           \/ FbSetDirty(t)
           \/ FbFillCall(t, "clear_panel", Black)
           \/ FbFillStep(t)
           \/ FbFillEnd(t)
           \/ FbReadCall(t, "framebuffer_rgb_bytes")
           \/ FbReadStep(t)
           \/ FbReadEnd(t)
           \/ FbReturn(t)

---------------------------------------------------------------------------
(* SpecOpen: _ensure_serial of LEDThread under the threads that call it   *)
(* (run at its start, set_pattern("off") and send_raw_frame through         *)
(* _set_all), each call taken in its steps: the test of self.ser, the call  *)
(* of serial.Serial, the assignment, the return.                            *)

NoHandle == 0

\* "if self.ser: return self.ser"
OpenCheck(t) ==
    /\ opc[t] = "idle"
    /\ IF oSelf # NoHandle
       THEN /\ oRet' = [oRet EXCEPT ![t] = oSelf]
            /\ opc' = [opc EXCEPT ![t] = "done"]
       ELSE /\ opc' = [opc EXCEPT ![t] = "open"]
            /\ UNCHANGED oRet
    /\ UNCHANGED <<oSelf, oNew, oCount, notOpen>>

\* "serial.Serial(self.port, 2_000_000, timeout=0.2)" returns a new handle,
\* or raises
OpenCall(t, ok) ==
    /\ opc[t] = "open"
    /\ oCount' = (IF ok THEN oCount + 1 ELSE oCount)
    /\ oNew' = [oNew EXCEPT ![t] = IF ok THEN oCount + 1 ELSE NoHandle]
    /\ opc' = [opc EXCEPT ![t] = "store"]
    /\ UNCHANGED <<oSelf, oRet, notOpen>>

\* "self.ser = ..." with the new handle, or "self.ser = None" in the except
\* clause
OpenStore(t) ==
    /\ opc[t] = "store"
    /\ oSelf' = oNew[t]
    /\ opc' = [opc EXCEPT ![t] = "return"]
    /\ UNCHANGED <<oNew, oRet, oCount, notOpen>>

\* "return self.ser"
OpenReturn(t) ==
    /\ opc[t] = "return"
    /\ oRet' = [oRet EXCEPT ![t] = oSelf]
    /\ opc' = [opc EXCEPT ![t] = "done"]
    /\ UNCHANGED <<oSelf, oNew, oCount, notOpen>>

InitOpen ==
    /\ opc = [t \in Senders |-> "idle"]
    /\ oSelf = NoHandle
    /\ oNew = [t \in Senders |-> NoHandle]
    /\ oRet = [t \in Senders |-> NoHandle]
    /\ oCount = 0

NextOpen ==
    \E t \in Senders :
        \/ OpenCheck(t)
        \/ \E ok \in BOOLEAN : OpenCall(t, ok)
        \/ OpenStore(t)
        \/ OpenReturn(t)

---------------------------------------------------------------------------
(* The pointer of the app_pi menu (app_pi/menu_controller.py) *)

\* the buttons whose names move_pointer matches
Directions == {"UP", "DOWN", "SELECT", "BACK"}

\* menu_data["home"]: the number of options of each screen, in order
MenuShapes ==
    UNION { [1 .. n -> 1 .. MaxScreenOpts] : n \in 1 .. MaxScreens }

\* start_point_tracker: a row for the home menu, one cell per screen, then a
\* row per screen, one cell per option, all 0
StartPointTracker(shape) ==
    <<[k \in 1 .. Len(shape) |-> 0]>>
        \o [s \in 1 .. Len(shape) |-> [k \in 1 .. shape[s] |-> 0]]

\* the cells of the tracker, (screen, option) counted from 0, in the order
\* the two loops of get_pointer_location visit them
CellsBefore(pt, s, o) ==
    { c \in (0 .. Len(pt) - 1) \X (0 .. MaxScreens + MaxScreenOpts) :
          /\ c[2] < Len(pt[c[1] + 1])
          /\ (c[1] < s \/ (c[1] = s /\ c[2] < o)) }

IsFirstOne(pt, c) ==
    /\ c[1] \in 0 .. Len(pt) - 1
    /\ c[2] \in 0 .. Len(pt[c[1] + 1]) - 1
    /\ pt[c[1] + 1][c[2] + 1] = 1
    /\ \A b \in CellsBefore(pt, c[1], c[2]) : pt[b[1] + 1][b[2] + 1] # 1

\* get_pointer_location: the first cell holding 1; with none, the counters
\* as the loops leave them
GetPointerLocation(pt) ==
    LET found == { c \in (0 .. Len(pt) - 1) \X (0 .. MaxScreens + MaxScreenOpts) :
                       IsFirstOne(pt, c) }
    IN  IF found # {} THEN CHOOSE c \in found : TRUE
        ELSE <<Len(pt) - 1, -1>>

\* pointer_tracker[s][o] = v as Python does it: a negative index counts from
\* the end, an index out of range raises IndexError
CanSet(pt, s, o) ==
    /\ PyIndex(s, Len(pt)) \in 0 .. Len(pt) - 1
    /\ PyIndex(o, Len(pt[PyIndex(s, Len(pt)) + 1]))
           \in 0 .. Len(pt[PyIndex(s, Len(pt)) + 1]) - 1

SetCell(pt, s, o, v) ==
    LET row == PyIndex(s, Len(pt)) + 1
        col == PyIndex(o, Len(pt[row])) + 1
    IN  [pt EXCEPT ![row] = [@ EXCEPT ![col] = v]]

\* the cell move_pointer sets to 1 for a direction, <<>> when it sets none
SelectTarget(sc, oc) == IF sc = 0 THEN <<<<oc + 1, 0>>>> ELSE <<>>

Target(pt, direction, sc, oc) ==
    LET last_index == Len(pt[PyIndex(sc, Len(pt)) + 1]) - 1
    IN  CASE direction = "UP" ->
                 IF oc = 0 THEN <<<<sc, last_index>>>> ELSE <<<<sc, oc - 1>>>>
          [] direction = "DOWN" ->
                 IF oc = last_index THEN <<<<sc, 0>>>> ELSE <<<<sc, oc + 1>>>>
          [] direction = "SELECT" -> SelectTarget(sc, oc)
          [] direction = "BACK" -> <<<<0, 0>>>>

\* MenuController.__init__
MenuConstruct(shape) ==
    /\ mpc = "new"
    /\ pointer_tracker' = StartPointTracker(shape)
    /\ mpc' = "built"
    /\ UNCHANGED <<raised, notPtr>>

\* start_menu
StartMenu ==
    /\ mpc = "built"
    /\ pointer_tracker' = SetCell(pointer_tracker, 0, 0, 1)
    /\ mpc' = "started"
    /\ UNCHANGED <<raised, notPtr>>

\* move_pointer(direction), a button's when_pressed callback
MovePointer(direction) ==
    /\ mpc = "started"
    /\ LET loc == GetPointerLocation(pointer_tracker)
           sc == loc[1]
           oc == loc[2]
       IN  IF ~CanSet(pointer_tracker, sc, oc)
           THEN raised' = TRUE /\ UNCHANGED pointer_tracker
           ELSE LET cleared == SetCell(pointer_tracker, sc, oc, 0)
                    target == Target(cleared, direction, sc, oc)
                IN  IF target = <<>>
                    THEN pointer_tracker' = cleared /\ raised' = FALSE
                    ELSE IF CanSet(cleared, target[1][1], target[1][2])
                         THEN /\ pointer_tracker' =
                                     SetCell(cleared, target[1][1], target[1][2], 1)
                              /\ raised' = FALSE
                         ELSE pointer_tracker' = cleared /\ raised' = TRUE
    /\ UNCHANGED <<mpc, notPtr>>

InitPtr ==
    /\ pointer_tracker = <<>>
    /\ mpc = "new"
    /\ raised = FALSE

NextPtr ==
    \/ \E shape \in MenuShapes : MenuConstruct(shape)
    \/ StartMenu
    \/ \E direction \in Directions : MovePointer(direction)

---------------------------------------------------------------------------
(* The specifications *)

Init ==
    /\ frame = InitFrame
    /\ dirty = FALSE
    /\ stop = FALSE
    /\ InitFB
    /\ InitApi
    /\ InitEncIdle
    /\ InitMirror
    /\ InitAnim
    /\ InitWs
    /\ InitLed
    /\ InitIo
    /\ InitBright
    /\ InitMenu
    /\ InitDisplay
    /\ InitPush
    /\ InitOpen
    /\ InitPtr

SpecFB == Init /\ [][NextFB]_vars
SpecApi == Init /\ [][NextApi]_vars

\* SpecEnc starts with one encoder call drawn
InitEnc ==
    /\ frame = InitFrame
    /\ dirty = FALSE
    /\ stop = FALSE
    /\ InitFB
    /\ InitApi
    /\ encIn \in SendFrameInputs \cup SolidFrameInputs \cup RleInputs
                    \cup DeltaInputs \cup TickInputs
    /\ encOut = NoOutput
    /\ InitMirror
    /\ InitAnim
    /\ InitWs
    /\ InitLed
    /\ InitIo
    /\ InitBright
    /\ InitMenu
    /\ InitDisplay
    /\ InitPush
    /\ InitOpen
    /\ InitPtr

SpecEnc == InitEnc /\ [][NextEnc]_vars
SpecMirror == Init /\ [][NextMirror]_vars
\* the event loop runs the broadcast loop whenever it can take a step
SpecMirrorFair == SpecMirror /\ WF_vars(BcStep)
SpecAnim == Init /\ [][NextAnim]_vars
\* the thread of run is scheduled, and time passes
SpecAnimFair == SpecAnim /\ WF_vars(AnStep) /\ WF_vars(Tick)
SpecWs == Init /\ [][NextWs]_vars
SpecLed == Init /\ [][NextLed]_vars
SpecIo == Init /\ [][NextIo]_vars
SpecBright == Init /\ [][NextBright]_vars
SpecMenu == Init /\ [][NextMenu]_vars
SpecDisplay == Init /\ [][NextDisplay]_vars
SpecPush == Init /\ [][NextPush]_vars
SpecOpen == Init /\ [][NextOpen]_vars

SpecPointer == Init /\ [][NextPtr]_vars

\* SpecCancel: the three workers side by side until and after stop is set.
\* It starts with the pattern set or not, the LED transport present or not,
\* and a viewer subscribed or not.
InitCancel ==
    /\ frame = InitFrame
    /\ dirty = FALSE
    /\ stop = FALSE
    /\ InitFB
    /\ InitApi
    /\ InitEncIdle
    /\ clients \in {{}, {1}}
    /\ webClients = clients
    /\ conn = [v \in Viewers |-> IF v \in clients THEN "open" ELSE "closed"]
    /\ InitMirrorLoop
    /\ InitAnim
    /\ InitWs
    /\ pattern \in {"off", "rgb_cycle"}
    /\ port \in {"up", "down"}
    /\ InitLedRun
    /\ InitIo
    /\ InitBright
    /\ InitMenu
    /\ InitDisplay
    /\ InitPush
    /\ InitOpen
    /\ InitPtr

NextCancel == LedStep \/ AnStep \/ BcStep \/ Tick \/ SetStop

\* a worker that can take a step is scheduled, and time passes
SpecCancel ==
    InitCancel /\ [][NextCancel]_vars
        /\ WF_vars(LedStep \/ AnStep \/ BcStep) /\ WF_vars(Tick)
\* both threads are scheduled
SpecLedFair == SpecLed /\ WF_vars(LedStep) /\ WF_vars(CallerStep)

---------------------------------------------------------------------------
(* C1: every value framebuffer_rgb_bytes() or _frame_bytes_grb() returns   *)
(* is the whole grid as it stood at one instant between whole writes,      *)
(* within the call: a snapshot never mixes pixels from before and after a  *)
(* clear_panel or an _animate fill.                                        *)
SnapshotNotTorn ==
    \A t \in Threads :
        pc[t] = "returned" =>
            \E f \in seen[t] :
                out[t] = IF op[t].name = "framebuffer_rgb_bytes"
                         THEN FramebufferRgbBytes(f)
                         ELSE FrameBytesGrb(f)

\* a read of a coloured grid has returned and, before its caller used the
\* bytes, a fill by another thread is part-way through the grid: the bytes
\* are a grid of the past and not the grid of now
SnapshotNotTornWitness ==
    \E t \in Threads, u \in Threads :
        /\ pc[t] = "returned"
        /\ op[t].name = "framebuffer_rgb_bytes"
        /\ out[t] # Zeros(3 * NumPixels)
        /\ pc[u] = "fill" /\ idx[u] > 0 /\ idx[u] < NumPixels
        /\ out[t] # FramebufferRgbBytes(frame)

---------------------------------------------------------------------------
\* (x, y) is outside the grid
OutsideGrid(x, y) == x < 0 \/ x >= Width \/ y < 0 \/ y >= Height

\* a channel clamped to [0, 255]
Clamp(v) == IF v > 255 THEN 255 ELSE IF v < 0 THEN 0 ELSE v

\* the three bytes of pixel (x, y) in a flat RGB buffer
BytesAt(buf, x, y) ==
    LET o == (y * Width + x) * 3
    IN <<buf[o + 1], buf[o + 2], buf[o + 3]>>

(* C2: for every in-bounds (x, y) and every integer triplet, update_pixel   *)
(* followed by framebuffer_rgb_bytes() yields a buffer whose bytes at       *)
(* offset (y*width + x)*3 are the triplet with each channel clamped to      *)
(* [0,255], and every other pixel is unchanged.                             *)
UpdatePixelReadsBackClamped ==
    [][ (/\ last'.name = "update_pixel"
         /\ calls' = calls + 1
         /\ ~OutsideGrid(last'.x, last'.y)
         /\ last'.color.ok)
        => /\ BytesAt(snap', last'.x, last'.y) =
                <<Clamp(last'.color.rgb[1]), Clamp(last'.color.rgb[2]),
                  Clamp(last'.color.rgb[3])>>
           /\ \A x \in Xs, y \in Ys :
                <<x, y>> # <<last'.x, last'.y>>
                    => BytesAt(snap', x, y) = BytesAt(snap, x, y) ]_vars

(* C3: for every (x, y) outside the grid and any colour, update_pixel       *)
(* raises no exception and leaves the framebuffer unchanged: the snapshot   *)
(* before the call and the snapshot after it are identical.                 *)
OutOfBoundsIsNoOp ==
    [][ (/\ last'.name = "update_pixel"
         /\ calls' = calls + 1
         /\ OutsideGrid(last'.x, last'.y))
        => (~last'.raised /\ snap' = snap) ]_vars

\* an update_pixel below the grid, with a colour int() would reject, has
\* returned on a grid that holds a coloured pixel
OutOfBoundsIsNoOpWitness ==
    /\ last.name = "update_pixel"
    /\ last.y = -1 /\ last.x \in Xs
    /\ ~last.color.ok
    /\ ~last.raised
    /\ snap # Zeros(3 * NumPixels)

---------------------------------------------------------------------------
(* C4: for every GRB payload of N pixels (1 <= N <= 65535) and brightness  *)
(* b in 0..255, send_frame writes exactly the header 0xAB 0xCD 0xF1 0x00,  *)
(* N mod 256, N div 256, b followed by the payload unchanged, 7 + 3*N      *)
(* bytes, as one contiguous write.                                         *)
SendFrameWritesHeaderThenPayload ==
    /\ encOut.fn = "send_frame" =>
           LET n == Len(encIn.payload) \div 3
           IN /\ Len(encOut.writes) = 1
              /\ encOut.writes[1] =
                     <<171, 205, 241, 0, n % 256, n \div 256, encIn.brightness>>
                     \o encIn.payload
              /\ Len(encOut.writes[1]) = 7 + 3 * n
    /\ encOut.fn = "send_solid" =>
           LET n == encIn.dims[1] * encIn.dims[2] * encIn.dims[3]
           IN /\ encOut.nwrites = 1
              /\ encOut.head =
                     <<171, 205, 241, 0, n % 256, n \div 256, encIn.brightness>>
              /\ encOut.restIsPayload
              /\ encOut.len = 7 + 3 * n

\* a frame of 65535 pixels was sent at full brightness: both count bytes
\* are 255
SendFrameWritesHeaderThenPayloadWitness ==
    /\ encOut.fn = "send_solid"
    /\ encIn.dims = <<255, 257, 1>>
    /\ encIn.brightness = 255
    /\ encOut.head[5] = 255 /\ encOut.head[6] = 255

(* C5: round trip: expanding every (run, colour) pair of                    *)
(* _encode_rle_rows(buf, w, h) row by row reproduces buf exactly, rows of   *)
(* one colour, of all-distinct colours and of more than 255 pixels of one   *)
(* colour included.                                                         *)
RleRoundTrip ==
    encOut.fn = "rle" => ExpandRows(encOut.rows) = encIn.buf

\* a row of 511 pixels of one colour was encoded: its run was cut at the cap
RleRoundTripWitness ==
    /\ encOut.fn = "rle"
    /\ encIn.w = 2 * RunCap + 1
    /\ encIn.buf = Solid(encIn.w, <<0, 0, 1>>)
    /\ Len(encOut.rows[1]) = 3

\* pixel i of old and of new differ in some byte
TripletDiffers(old, new, i) ==
    \E k \in 1 .. 3 : old[3 * i + k] # new[3 * i + k]

(* C6: for two RGB buffers of equal non-zero length, _delta_indices(old,    *)
(* new) returns, ascending and without duplicates, exactly the pixel        *)
(* indices whose triplets differ; when the lengths differ (or old is empty) *)
(* it returns every pixel index 0 .. len(new)/3 - 1.                        *)
DeltaIndicesExact ==
    encOut.fn = "delta" =>
        LET old == encIn.old
            new == encIn.new
            d == encOut.diffs
            npx == Len(new) \div 3
        IN IF Len(old) = Len(new) /\ Len(old) > 0
           THEN /\ \A k \in 1 .. Len(d) - 1 : d[k] < d[k + 1]
                /\ { d[k] : k \in 1 .. Len(d) } =
                       { i \in 0 .. npx - 1 : TripletDiffers(old, new, i) }
           ELSE d = [k \in 1 .. npx |-> k - 1]

\* two buffers of equal length were compared that differ in the last byte of
\* one pixel only
DeltaIndicesExactWitness ==
    /\ encOut.fn = "delta"
    /\ Len(encIn.old) = 9 /\ Len(encIn.new) = 9
    /\ encOut.diffs = <<1>>
    /\ encIn.old[4] = encIn.new[4] /\ encIn.old[5] = encIn.new[5]

---------------------------------------------------------------------------
\* C7: every viewer of a broadcast tick, whenever it subscribed, has after
\* applying the tick's message a preview equal to the tick's snapshot
\* (_last_buf is that snapshot from the tick's begin to the next tick's)
PreviewEqualsTickSnapshot ==
    \A v \in delivered : preview[v] = lastBuf

\* C8: a viewer that stays subscribed while the framebuffer stops changing
\* and stop is not set has, from some tick on, a preview equal to the
\* framebuffer
ViewerEventuallyConsistent ==
    \A v \in Viewers :
        (<>[][frame' = frame]_vars /\ <>[](v \in clients /\ ~stop))
            => <>[](preview[v] = FramebufferRgbBytes(frame))

\* a viewer that joined after the first full frame was sent, and did not
\* get that frame, has a preview equal to a framebuffer that is not blank
ViewerEventuallyConsistentWitness ==
    \E v \in Viewers :
        /\ v \in clients /\ v \in delivered /\ ~stop
        /\ bpc = "send" /\ pending = {}
        /\ msg.type = "frame_rle"
        /\ frame # InitFrame
        /\ preview[v] = FramebufferRgbBytes(frame)
        /\ \E u \in Viewers \ {v} : u \in delivered

\* C10: a send that raises drops its viewer (out of the subscriber set when
\* the tick ends, not sent to again), every viewer of the tick is still
\* sent the tick's message, and the broadcast loop goes on
SendFailureDropsOnlyThatViewer ==
    /\ bpc \in {"top", "sleep", "send", "exit"}
    /\ \A v \in failed :
          /\ v \notin pending
          /\ v \in clients => (bpc = "send" /\ v \in dead)
    /\ bpc = "send" => tickSubs = pending \cup delivered \cup dead
    /\ delivered \cap dead = {}

\* a tick in which a send raised and another viewer got the message
SendFailureDropsOnlyThatViewerWitness ==
    /\ bpc = "send" /\ pending = {}
    /\ dead # {} /\ delivered # {}
    /\ \E v \in dead : v \in clients /\ conn[v] = "open"

\* C9: with the transport up, send_to_led true and stop not set, once the
\* framebuffer stops changing the last frame written to the device is, from
\* some push on, the header and the GRB bytes of that framebuffer
DeviceEventuallyConsistent ==
    (<>[][frame' = frame]_vars /\ <>[](link = "up" /\ sendToLed /\ ~stop))
        => <>[](sent = FrameHeader(NumPixels, Brightness) \o FrameBytesGrb(frame))

\* the periodic push wrote a framebuffer whose dirty signal had been cleared
\* by the clear after the wait
DeviceEventuallyConsistentWitness ==
    /\ frame # InitFrame
    /\ sent = FrameHeader(NumPixels, Brightness) \o FrameBytesGrb(frame)
    /\ apc = "mark" /\ tickDue /\ ~dirty
    /\ lost
    /\ link = "up" /\ sendToLed /\ ~stop

\* the batch m is well formed: every point has its five numbers
WellFormedBatch(m) ==
    m.type = "points" /\ \A i \in 1 .. Len(m.pts) : PointOk(m.pts[i])

\* the points of the batch m that target (x, y)
Targeting(m, x, y) ==
    { i \in 1 .. Len(m.pts) : m.pts[i].x[1] = x /\ m.pts[i].y[1] = y }

\* the greatest element of a non-empty set of numbers
Greatest(S) == CHOOSE i \in S : \A j \in S : j <= i

\* C11: after a well-formed "points" batch every coordinate of the grid that
\* the batch names holds the colour of the last point that targets it, and
\* the other coordinates are unchanged
BatchLastWriteWins ==
    WellFormedBatch(wsIn) =>
        \A x \in Xs, y \in Ys :
            IF Targeting(wsIn, x, y) = {}
            THEN frame[y][x] = wsPre[y][x]
            ELSE LET p == wsIn.pts[Greatest(Targeting(wsIn, x, y))]
                 IN frame[y][x] = <<p.r[1], p.g[1], p.b[1]>>

\* the batch [(0,0,(1,2,3)), (0,0,(9,9,9))] was applied to a framebuffer
\* that had another pixel set
BatchLastWriteWinsWitness ==
    /\ WellFormedBatch(wsIn) /\ Len(wsIn.pts) = 2
    /\ Targeting(wsIn, 0, 0) = {1, 2}
    /\ wsIn.pts[1].r = <<1>> /\ wsIn.pts[2].r = <<9>>
    /\ frame[0][0] = <<9, 9, 9>>
    /\ wsPre[0][1] # Black /\ frame[0][1] = wsPre[0][1]

\* the message m is malformed: invalid JSON, a batch with a point that lacks
\* a field or has a value that is not a number, or a legacy edit whose
\* colour is not "#" and six hex digits
Malformed(m) ==
    \/ m.type = "invalid_json"
    \/ m.type = "points" /\ ~WellFormedBatch(m)
    \/ m.type = "legacy" /\ ~(Len(m.color) = 7 /\ LegacyOk(m))

\* C12: a malformed message raises nothing, leaves the handler serving and
\* leaves the framebuffer exactly as it was before the message
MalformedMessageDiscarded ==
    Malformed(wsIn) => wsServing /\ frame = wsPre

\* C13: clear_panel leaves an all-black snapshot, and a clear_panel right
\* after a clear_panel leaves the snapshot the first one left
ClearPanelIdempotent ==
    last.name = "clear_panel" =>
        /\ snap = Zeros(3 * NumPixels)
        /\ last.prev = "clear_panel" => snap = last.before

\* three calls were made, the last two of them clear_panel
ClearPanelIdempotentWitness ==
    /\ last.name = "clear_panel" /\ last.prev = "clear_panel"
    /\ calls = 3
    /\ dirty

\* C14: with run in rgb_cycle and the transport up, once set_pattern("off")
\* has taken the pattern off rgb_cycle, no colour frame is written before the
\* first all-black frame: the first frame written while the pattern is "off"
\* is all-black.
FirstFrameAfterOffIsBlack == offWatch # "broken"

StopAtStartOneBlackFrame ==
    (stopAtStart /\ ~portDropped)
    => /\ ~entered
       /\ wLast \in {NoColor, Black}
       /\ wWrites <= 1
       /\ lpc \in {"rdy", "top", "ensure", "write", "close", "done"}
       /\ lpc \in {"close", "done"} => wWrites = 1 /\ wLast = Black

\* run began with stop set, wrote its one black frame and is over
StopAtStartOneBlackFrameWitness ==
    /\ stopAtStart /\ ~portDropped /\ lpc = "done"
    /\ ~entered /\ wWrites = 1 /\ wire = LedFrame(Black)

AnimLastFrameIsOff ==
    (apc = "done" /\ sent # NoFrame)
    => sent = FrameHeader(NumPixels, Brightness) \o Zeros(3 * NumPixels)

\* C19: a send of LEDThread.run that raised does not end the worker: unless
\* stop is set, after a failed send run is still in its main loop and self.ser
\* is still open.
FailedSendKeepsWorker ==
    (~stop /\ wTry.col # NoColor /\ ~wTry.up)
    => (wafter # "close" /\ lpc # "done" /\ lser = "open")

\* C20: every call of _ensure_serial returns: with self.ser open it keeps
\* that handle and opens nothing; with self.ser unset it tries to open, and a
\* failed open leaves self.ser unset, so that the next call tries again.  A
\* send that finds no transport (the _set_all of run or of
\* set_pattern("off")) returns normally and writes nothing.
EnsureSerialContract ==
    [][((lpc \in {"start", "ensure"} /\ lpc' # lpc)
            \/ (cpc = "ensure" /\ cpc' # "ensure"))
       => /\ lser = "open" => (lser' = "open" /\ ~opened')
          /\ (lser = "none" /\ port = "up") => (lser' = "open" /\ opened')
          /\ (lser = "none" /\ port = "down")
             => /\ lser' = "none" /\ opened'
                /\ wire' = wire
                /\ (lpc = "start" /\ lpc' # lpc) => lpc' = "noser"
                /\ (lpc = "ensure" /\ lpc' # lpc) => lpc' = wafter
                /\ (cpc = "ensure" /\ cpc' # cpc) => cpc' = "idle"]_vars

\* the open of run failed and left self.ser unset; a later
\* set_pattern("off") opened the transport and wrote its black frame
EnsureSerialContractWitness ==
    /\ lpc = "noser" /\ lser = "open" /\ opened
    /\ cpc = "idle" /\ pattern = "off" /\ wire = LedFrame(Black)

\* C21: the sends on the handle of LEDThread exclude one another: at most one
\* thread is inside send_frame at a time, that thread holds _io_lock, and
\* the bytes of two frames are never interleaved on the wire.
SendsMutuallyExclusive ==
    /\ Cardinality({t \in Senders : iopc[t] \in InSendFrame}) <= 1
    /\ \A t \in Senders : iopc[t] \in InSendFrame => ioLock = t
    /\ ~ioTorn

\* the worker is between the two parts of its write while a caller of
\* send_raw_frame and a caller of set_pattern("off") wait for the lock
SendsMutuallyExclusiveWitness ==
    /\ iopc[1] = "written1" /\ ioOpen = 1 /\ ioKind[1] = "set_all"
    /\ \E t, u \in Senders :
          /\ iopc[t] = "lock" /\ ioKind[t] = "raw"
          /\ iopc[u] = "lock" /\ ioKind[u] = "off"

\* C22: every frame a worker writes carries in byte 6 of its header the
\* led.brightness that the settings hold at the time of the send, the
\* constructor's default standing in only for a setting that is absent or
\* cannot be read.
BrightnessPolled ==
    bBy # "none"
    => bSent[7] = (IF bAt.kind = "int" THEN bAt.val ELSE DefaultBrightness)

Distinct(opts) ==
    \A j, k \in 1 .. Len(opts) : opts[j] = opts[k] => j = k

\* C24: len(options) consecutive SELECTs on a select item return the bound
\* setting to the value it started with.
SelectCycleReturns ==
    (mLoaded /\ mOpts # <<>> /\ mStart # <<>> /\ mCount = Len(mOpts))
    => mVal = mStart

\* C24 as amended: each SELECT on a select item with options calls save_cb
\* and sets the bound setting to the option after the first occurrence of
\* its current value, wrapping from the last option to the first; a current
\* value that is not in the list goes to the first option, an absent setting
\* counts as the first option; and when the options are pairwise distinct
\* and the starting value is one of them, len(options) consecutive SELECTs
\* return the setting to its starting value.
SelectRotates ==
    (mLoaded /\ mOpts # <<>> /\ mCount > 0)
    => /\ mSaves = mCount
       /\ \A k \in 1 .. Len(mOpts) :
             (mPrev = <<mOpts[k]>> /\ \A j \in 1 .. k - 1 : mOpts[j] # mOpts[k])
             => mVal = <<mOpts[(k % Len(mOpts)) + 1]>>
       /\ (mPrev # <<>> /\ \A k \in 1 .. Len(mOpts) : mPrev # <<mOpts[k]>>)
             => mVal = <<mOpts[1]>>
       /\ mPrev = <<>> => mVal = <<mOpts[(1 % Len(mOpts)) + 1]>>
       /\ (Distinct(mOpts) /\ mCount = Len(mOpts)
              /\ \E k \in 1 .. Len(mOpts) : mStart = <<mOpts[k]>>)
             => mVal = mStart

\* three SELECTs on three distinct options, from the last of them, have
\* wrapped and come back to it
SelectRotatesWitness ==
    /\ mLoaded /\ mOpts = <<1, 2, 3>> /\ mStart = <<3>>
    /\ mCount = 3 /\ mSaves = 3 /\ mPrev = <<2>> /\ mVal = <<3>>

\* C25: in an iteration of DisplayThread.run that finds the display sleeping,
\* every value given to _apply_brightness is 0, whatever display.brightness
\* holds.
SleepingIterationAppliesZero ==
    dBranch = "sleeping" => \A k \in 1 .. Len(dIter) : dIter[k] = 0

\* the number of pixels of the snapshot new that differ from the buffer sent
\* last; all of them when there is no such buffer of that size
ChangedPixels(old, new) ==
    IF Len(old) = Len(new) /\ Len(old) > 0
    THEN Cardinality({ i \in 0 .. (Len(new) \div 3) - 1 :
                         TripletDiffers(old, new, i) })
    ELSE Len(new) \div 3

\* C26: the message of a tick is a delta if and only if the dimensions sent
\* last are the current ones and the number n of changed pixels has
\* 0 < n < 0.4 * w * h; it is a frame_rle otherwise.
DeltaIffFewChanges ==
    encOut.fn = "tick" =>
        /\ encOut.msg.type \in {"delta", "frame_rle"}
        /\ encOut.msg.type = "delta"
           <=> /\ encIn.lw = encIn.w /\ encIn.lh = encIn.h
               /\ 0 < ChangedPixels(encIn.last, encIn.buf)
               /\ 5 * ChangedPixels(encIn.last, encIn.buf)
                      < 2 * encIn.w * encIn.h

\* on a row of five pixels two changed pixels, exactly 40%, were sent as a
\* full frame
DeltaIffFewChangesWitness ==
    /\ encOut.fn = "tick" /\ encOut.msg.type = "frame_rle"
    /\ encIn.w = 5 /\ encIn.h = 1 /\ encIn.lw = 5 /\ encIn.lh = 1
    /\ ChangedPixels(encIn.last, encIn.buf) = 2

\* C27: a dirty marker set after the last push (also one set during the wait
\* between two iterations) makes the next iteration of run push, whether or
\* not the frame tick is due.
EarlyPushOnDirty ==
    [][(apc = "decide" /\ apc' # "decide" /\ sendToLed /\ (dirty \/ lost))
           => apc' = "push"]_vars

\* C28: the dirty marker goes from set to clear only when a frame read from
\* the framebuffer after the call that set it has been written.
DirtyClearedOnlyByPush ==
    [][(dirty /\ ~dirty') => ~unsent]_vars

\* the sum of the run lengths of a row of (run, colour) pairs
RECURSIVE RunTotal(_)
RunTotal(row) ==
    IF row = <<>> THEN 0 ELSE Head(row)[1] + RunTotal(Tail(row))

\* C29: _encode_rle_rows(buf, w, h) returns h rows; in each row the run
\* lengths sum to w, every run length is in 1 .. 255, and two adjacent runs
\* have the same colour only if the first of them has length 255.
RleRowsWellFormed ==
    encOut.fn = "rle" =>
        /\ Len(encOut.rows) = encIn.h
        /\ \A y \in 1 .. Len(encOut.rows) :
               LET row == encOut.rows[y]
               IN /\ RunTotal(row) = encIn.w
                  /\ \A k \in 1 .. Len(row) :
                         row[k][1] >= 1 /\ row[k][1] <= 255
                  /\ \A k \in 1 .. Len(row) - 1 :
                         row[k][2] = row[k + 1][2] => row[k][1] = 255

\* a row of 256 pixels of one colour was encoded as a run of 255 and a run
\* of 1 of the same colour
RleRowsWellFormedWitness ==
    /\ encOut.fn = "rle"
    /\ encIn.w = 256 /\ encIn.h = 1
    /\ Len(encOut.rows[1]) = 2
    /\ encOut.rows[1][1][1] = 255 /\ encOut.rows[1][2][1] = 1
    /\ encOut.rows[1][1][2] = encOut.rows[1][2][2]

\* the buffer old with pixel indices[k] overwritten by rgb[k], for every k
Overwritten(old, indices, rgb) ==
    [j \in 1 .. Len(old) |->
        LET hits == { k \in 1 .. Len(indices) : indices[k] = (j - 1) \div 3 }
        IN IF hits = {} THEN old[j]
           ELSE rgb[CHOOSE k \in hits : \A m \in hits : m <= k][((j - 1) % 3) + 1]]

\* C30: in a delta message indices and rgb have the same length, indices[k]
\* is the index y * W + x of a pixel that changed since the snapshot sent
\* last, rgb[k] is that pixel's [r, g, b] in the current snapshot, and the
\* snapshot sent last overwritten with them is the current snapshot.
DeltaPatchesLastToCurrent ==
    (encOut.fn = "tick" /\ encOut.msg.type = "delta") =>
        LET m == encOut.msg
        IN /\ Len(m.indices) = Len(m.rgb)
           /\ \A k \in 1 .. Len(m.indices) :
                  /\ m.indices[k] \in 0 .. encIn.w * encIn.h - 1
                  /\ TripletDiffers(encIn.last, encIn.buf, m.indices[k])
                  /\ m.rgb[k] = <<encIn.buf[3 * m.indices[k] + 1],
                                  encIn.buf[3 * m.indices[k] + 2],
                                  encIn.buf[3 * m.indices[k] + 3]>>
           /\ Overwritten(encIn.last, m.indices, m.rgb) = encIn.buf

\* a delta of two pixels was sent, one turned on and one turned off
DeltaPatchesLastToCurrentWitness ==
    /\ encOut.fn = "tick" /\ encOut.msg.type = "delta"
    /\ Len(encOut.msg.indices) = 2
    /\ encOut.msg.rgb[1] # encOut.msg.rgb[2]

\* C31: a tick with a subscriber leaves the snapshot it took in _last_buf and
\* the snapshot's (w, h) in _last_w, _last_h, whichever message it sends, and
\* the sends of the tick, failed or not, leave them alone.
LastSentIsTickSnapshot ==
    [][/\ (bpc = "sleep" /\ bpc' = "send") =>
              /\ lastBuf' = FramebufferRgbBytes(frame)
              /\ lastDims' = <<Width, Height>>
       /\ (bpc = "send" /\ bpc' # "sleep") =>
              /\ lastBuf' = lastBuf
              /\ lastDims' = lastDims]_vars

\* a tick that sent a delta has ended with every send failed, and the last
\* buffer and dimensions are those of its snapshot
LastSentIsTickSnapshotWitness ==
    /\ bpc = "send" /\ pending = {} /\ delivered = {} /\ dead = tickSubs
    /\ tickSubs # {}
    /\ msg.type = "delta"
    /\ lastDims = <<Width, Height>>
    /\ lastBuf # Zeros(3 * NumPixels)

\* C32: a tick with no subscriber goes back to the head of the loop: no
\* message is encoded, nobody is sent to, and _last_buf, _last_w, _last_h
\* stay as they were.
EmptyTickDoesNothing ==
    [][(bpc = "sleep" /\ bpc' # "sleep" /\ clients = {}) =>
           /\ bpc' = "top"
           /\ msg' = NoMessage /\ tickSubs' = {} /\ pending' = {}
           /\ lastBuf' = lastBuf /\ lastDims' = lastDims
           /\ preview' = preview /\ frame' = frame]_vars

\* a tick finds no subscriber after an earlier tick has sent a frame that
\* the framebuffer has since left behind
EmptyTickDoesNothingWitness ==
    /\ bpc = "sleep" /\ clients = {}
    /\ lastDims = <<Width, Height>>
    /\ lastBuf # FramebufferRgbBytes(frame)

\* C33: while the worker is inside serial.Serial or inside send_frame it
\* does not hold the framebuffer lock, so a call of another thread that
\* waits for the lock waits for no transport call.
NoFrameLockInTransportCall ==
    ppc \in {"opening", "send"} => frameLock # Worker

\* with the worker inside send_frame, one caller has completed its call and
\* another is inside the lock
NoFrameLockInTransportCallWitness ==
    /\ ppc = "send"
    /\ \E t \in Callers : pc[t] = "done"
    /\ \E t \in Callers : frameLock = t

\* C34: when the first _ensure_serial of run gets no handle, run stays in
\* its idle loop until stop is set and then returns: the worker has written
\* and tried no frame, it opens nothing and writes nothing in its steps,
\* whatever the pattern, and once stop is set it ends.
NoHardwareIsTerminal ==
    /\ [](lpc = "noser" => wWrites = 0 /\ wTry.col = NoColor /\ ~entered)
    /\ [][lpc = "noser" =>
              /\ lpc' \in {"noser", "done"}
              /\ wWrites' = wWrites /\ wTry' = wTry
              /\ lpc' = "done" => (stop /\ lser' = lser /\ wire' = wire)]_vars
    /\ ((lpc = "noser" /\ stop) ~> lpc = "done")

\* run has ended from its idle loop without a send of its own, although the
\* transport came up later, a caller opened it and wrote to it, and
\* rgb_cycle was selected
NoHardwareIsTerminalWitness ==
    /\ lpc = "done" /\ ~entered /\ wTry.col = NoColor /\ wWrites = 0
    /\ opened /\ lser = "open" /\ wire # NoFrame
    /\ pattern = "rgb_cycle"

\* the colour after c in the order red, green, blue, red
NextInCycle(c) ==
    IF c = <<25, 0, 0>> THEN <<0, 25, 0>>
    ELSE IF c = <<0, 25, 0>> THEN <<0, 0, 25>>
    ELSE <<25, 0, 0>>

\* a frame the worker writes while the pattern has stayed "rgb_cycle" since
\* its last frame and stop is not set is a solid fill of the colour that
\* follows the last one in the order red, green, blue, red
CycleInOrder ==
    (lpc = "write" /\ lpc' # lpc /\ port = "up" /\ ~stop /\ steady
         /\ pattern = "rgb_cycle" /\ wLast \in {<<25, 0, 0>>, <<0, 25, 0>>, <<0, 0, 25>>})
        => wire' = LedFrame(NextInCycle(wLast))

\* the check points: the head of the for loop breaks the cycle, and the
\* hold loop sleeps no more, when stop is set or the pattern is another
CheckPointsCancel ==
    /\ (lpc = "forcheck" /\ lpc' # lpc /\ (stop \/ pattern # "rgb_cycle"))
           => lpc' = "endit"
    /\ (lpc = "hold" /\ lpc' # lpc /\ (stop \/ pattern # "rgb_cycle"))
           => (held' = held /\ lpc' = "forcheck")

(* C35: while the pattern stays "rgb_cycle" and stop is not set   *)
(* the worker's frames are solid fills in the order red, green, blue, red;  *)
(* and once the worker has seen stop set or another pattern at a check      *)
(* point (the head of the for loop, or the hold loop, which it then leaves  *)
(* before the hold is over) it sends no further colour of that cycle.       *)
CycleOrderAndCancel ==
    [][/\ CycleInOrder
       /\ CheckPointsCancel
       /\ (lpc = "forcheck" /\ colIdx > 0 /\ held < HoldSleeps)
              => lpc' # "ensure"]_vars

OpenedAtMostOnce ==
    /\ oCount <= 1
    /\ \A t \in Senders, u \in Senders :
           (opc[t] = "done" /\ opc[u] = "done"
                /\ oRet[t] # NoHandle /\ oRet[u] # NoHandle)
               => oRet[t] = oRet[u]

\* C38: the handle is not closed under a writer: _close_serial of the
\* worker's finally clause does not close a handle that a thread in
\* set_pattern("off") has got from _ensure_serial for its send, and no such
\* thread writes to a handle that has been closed.
NeverClosedUnderWriter ==
    [][/\ (lpc = "close" /\ lpc' = "done") => ~(cpc = "write" /\ cser = "open")
       /\ (cpc = "write" /\ cpc' = "idle") => cser # "closed"]_vars

\* C39: a viewer is in the subscriber set, and its sender in the legacy
\* registry of the animation thread, only while its handler runs; when the
\* handler ends the viewer is in neither; and a viewer that the broadcast
\* loop dropped after a failed send stays out of the subscriber set for the
\* rest of its handler's run.
SubscribedOnlyWhileHandled ==
    /\ [](\A v \in Viewers : v \in clients \cup webClients => conn[v] = "open")
    /\ [][\A v \in Viewers :
              /\ (conn[v] = "open" /\ conn'[v] = "closed")
                     => v \notin clients' \cup webClients'
              /\ (conn[v] = "open" /\ conn'[v] = "open" /\ v \notin clients)
                     => v \notin clients']_vars

\* one handler has ended after its viewer got a frame, and another is still
\* running after the broadcast loop dropped its viewer
SubscribedOnlyWhileHandledWitness ==
    \E v \in Viewers, u \in Viewers :
        /\ conn[v] = "open" /\ v \in failed /\ v \notin clients
        /\ v \in webClients
        /\ conn[u] = "closed" /\ preview[u] # Zeros(3 * NumPixels)

\* C40: once start_menu has run, after every move_pointer call with UP,
\* DOWN, SELECT or BACK exactly one cell of pointer_tracker is 1, and
\* get_pointer_location returns the place of that cell, a screen and an
\* option inside the tracker.
NumOnes(pt) ==
    Cardinality({ c \in (1 .. Len(pt)) \X (1 .. MaxScreens + MaxScreenOpts) :
                      c[2] <= Len(pt[c[1]]) /\ pt[c[1]][c[2]] = 1 })

PointerAlwaysFound ==
    mpc = "started" =>
        /\ NumOnes(pointer_tracker) = 1
        /\ IsFirstOne(pointer_tracker, GetPointerLocation(pointer_tracker))

===========================================================================
